---- MODULE Spec2Model ----
(***************************************************************************)
(* The bridge transfer protocol of the movement repository: the action     *)
(* engine (bridge/service/src/actions.rs), the account-chain counterparty  *)
(* client (bridge/chains/movement/src/lib.rs), the two HTLC contracts and  *)
(* the relayer loop that feeds observed events to process_action.          *)
(***************************************************************************)
EXTENDS Integers, Sequences, FiniteSets, TLC

VARIABLES
    now,        \* wall clock, in seconds
    chainA,     \* origin chain: the initiator contract's record per transfer id
    chainB,     \* destination chain: the counterparty contract's record per transfer id
    qA,         \* events the monitor of chain A has confirmed and not yet delivered
    qB,         \* events the monitor of chain B has confirmed and not yet delivered
    relayer,    \* the relayer's local state per transfer id
    units,      \* the units of work process_action returned, in spawn order
    paLog,      \* the latest call of process_action: its argument and what it returned
    mvCall,     \* the latest call made through MovementClient and what it returned
    redelivered, \* how many events the monitors delivered a second time
    addrLenB,   \* length of the address type A of the destination adapter
    ethCall,    \* the latest call made through EthClient and what it returned
    idCalc,     \* the latest transfer id derivation: its inputs and what it gave
    mvt,        \* the account chain's initiator side as a client and its monitor see it
    extract,    \* the latest event extraction: the events read and what it returned
    conv,       \* the latest conversion of bytes to an EthAddress and what it gave
    pipe,       \* the transaction pipe, its channels and the ledger it reads
    da,         \* the Celestia chain and the latest call of its verifier
    signed,     \* the verifier of known signers and its latest call
    ingress     \* the task that batches transactions for the DA and its channel

vars == <<now, chainA, chainB, qA, qB, relayer, units, paLog, mvCall, redelivered, addrLenB,
          ethCall, idCalc, mvt, extract, conv, pipe, da, signed, ingress>>

-----------------------------------------------------------------------------
(* Bounds of the model *)

MaxIds == 1
MaxTime == 2
MaxUnits == 4
MaxRedeliver == 1
MaxWait == 1
MaxSecret == 2

Ids == 1 .. MaxIds
Preimages == 1 .. MaxSecret
Waits == 0 .. MaxWait

-----------------------------------------------------------------------------
(* Domain types *)

\* Length in bytes of an account-chain address, the length that triggers funding.
MovementAddressLen == 32
\* Length in bytes of an EVM address.
EthAddressLen == 20
\* The time lock the contracts give a transfer, in seconds.
TimeLockDuration == 1

AddressLens == {EthAddressLen, MovementAddressLen}

\* BridgeAddress<Vec<u8>>: the bytes, abstracted to their length and a name.
BridgeAddress(len, who) == [len |-> len, who |-> who]
NoAddress == BridgeAddress(0, 0)
Recipients == {BridgeAddress(l, 1) : l \in AddressLens}
Initiator == BridgeAddress(EthAddressLen, 2)

\* The hash of a preimage: an injective map into a range disjoint from the preimages.
HashOf(preimage) == preimage + 100
\* The amount the transfers of the model carry.
TestAmount == 100

ChainA == "A"
ChainB == "B"

\* TransferActionType, with the fields of every variant flattened into one record.
ActionKinds ==
    {"LockBridgeTransfer", "WaitAndCompleteInitiator", "RefundInitiator",
     "TransferDone", "NoAction"}

TransferAction(chain, id, kind, hash_lock, initiator, recipient, amount, wait, secret) ==
    [chain |-> chain, transfer_id |-> id, kind |-> kind,
     bridge_transfer_id |-> IF kind = "LockBridgeTransfer" THEN id ELSE 0,
     hash_lock |-> hash_lock, initiator |-> initiator, recipient |-> recipient,
     amount |-> amount, wait |-> wait, secret |-> secret]

PlainAction(chain, id, kind) ==
    TransferAction(chain, id, kind, 0, NoAddress, NoAddress, 0, 0, 0)

NilAction == PlainAction("-", 0, "NoAction")

\* The LockBridgeTransfer actions a caller of process_action can build: transfer_id
\* and the bridge_transfer_id of the kind are two fields.
LockActions ==
    {[TransferAction(ChainB, transfer_id, "LockBridgeTransfer", HashOf(secret), Initiator,
                     recipient, TestAmount, 0, 0)
         EXCEPT !.bridge_transfer_id = id] :
         transfer_id \in 1 .. MaxIds + 1, id \in Ids, secret \in Preimages,
         recipient \in Recipients}

\* ActionExecError(TransferAction, BridgeContractError)
ActionExecError(action, error) == [tag |-> "Err", action |-> action, error |-> error]
OkResult == [tag |-> "Ok", action |-> NilAction, error |-> "-"]
Pending == [tag |-> "Pending", action |-> NilAction, error |-> "-"]

-----------------------------------------------------------------------------
(* The two HTLC contracts *)

NoRecord ==
    [state |-> "None", hash_lock |-> 0, time_lock |-> 0, amount |-> 0,
     recipient |-> NoAddress, released |-> 0]

\* Origin contract, initiateBridgeTransfer: a new record under a hash lock.
ContractInitiate(rec, hash_lock, recipient, amount, t) ==
    IF rec.state = "None"
    THEN [ok |-> TRUE,
          rec |-> [state |-> "Initiated", hash_lock |-> hash_lock,
                   time_lock |-> t + TimeLockDuration, amount |-> amount,
                   recipient |-> recipient, released |-> 0]]
    ELSE [ok |-> FALSE, rec |-> rec]

\* ContractLock writing a fresh Locked record over whatever the id has.
ContractLock_overwrite(rec, hash_lock, recipient, amount, t) ==
    [ok |-> TRUE,
     rec |-> [state |-> "Locked", hash_lock |-> hash_lock,
              time_lock |-> t + TimeLockDuration, amount |-> amount,
              recipient |-> recipient, released |-> 0]]

\* Destination contract, lock: rejected when the id already has a record.
ContractLock(rec, hash_lock, recipient, amount, t) ==
    IF rec.state = "None"
    THEN [ok |-> TRUE,
          rec |-> [state |-> "Locked", hash_lock |-> hash_lock,
                   time_lock |-> t + TimeLockDuration, amount |-> amount,
                   recipient |-> recipient, released |-> 0]]
    ELSE [ok |-> FALSE, rec |-> rec]

\* Either contract, complete: the preimage must hash to the recorded hash lock.
ContractComplete(rec, live, preimage) ==
    IF rec.state = live /\ HashOf(preimage) = rec.hash_lock
    THEN [ok |-> TRUE, rec |-> [rec EXCEPT !.state = "Completed", !.released = rec.amount]]
    ELSE [ok |-> FALSE, rec |-> rec]

\* ContractExpire accepting a record that was completed already.
ContractExpire_completed_too(rec, live, final, t) ==
    IF rec.state \in {live, "Completed"} /\ t >= rec.time_lock
    THEN [ok |-> TRUE, rec |-> [rec EXCEPT !.state = final]]
    ELSE [ok |-> FALSE, rec |-> rec]

\* Either contract, refund or abort: only once the time lock has elapsed.
ContractExpire(rec, live, final, t) ==
    IF rec.state = live /\ t >= rec.time_lock
    THEN [ok |-> TRUE, rec |-> [rec EXCEPT !.state = final]]
    ELSE [ok |-> FALSE, rec |-> rec]

\* A bridge contract event as the monitors decode it.
Event(type, id, rec, preimage) ==
    [type |-> type, id |-> id, hash_lock |-> rec.hash_lock, recipient |-> rec.recipient,
     amount |-> rec.amount, preimage |-> preimage]

TerminalEvents == {"Completed", "Refunded", "Aborted"}

-----------------------------------------------------------------------------
(* The chain client: send, then watch for inclusion *)

Transports == {"up", "down"}

\* send_aptos_transaction / send_transaction: Err when the node is unreachable or
\* the contract rejects the call; the record changes only when it is accepted.
send_transaction(transport, outcome, rec) ==
    IF transport = "down" THEN [res |-> "Err", rec |-> rec]
    ELSE IF outcome.ok THEN [res |-> "Ok", rec |-> outcome.rec]
    ELSE [res |-> "Err", rec |-> rec]

\* Result::map_err
map_err(res, error) == IF res = "Ok" THEN "Ok" ELSE error

-----------------------------------------------------------------------------
(* MovementClient, the account-chain counterparty client *)

\* complete_bridge_transfer: the result of the send is mapped and dropped.
complete_bridge_transfer(rec, preimage, transport) ==
    LET sent == send_transaction(transport, ContractComplete(rec, "Locked", preimage), rec)
        dropped == map_err(sent.res, "CompleteTransferError")
    IN  [ret |-> "Ok", rec |-> sent.rec, sent |-> dropped]

\* lock_bridge_transfer_assets: the result of the send is mapped and dropped.
lock_bridge_transfer_assets(rec, hash_lock, recipient, amount, t, transport) ==
    LET sent == send_transaction(transport, ContractLock(rec, hash_lock, recipient, amount, t), rec)
        dropped == map_err(sent.res, "LockTransferAssetsError")
    IN  [ret |-> "Ok", rec |-> sent.rec, sent |-> dropped]

\* abort_bridge_transfer: the result of the send is mapped and dropped.
abort_bridge_transfer(rec, t, transport) ==
    LET sent == send_transaction(transport, ContractExpire(rec, "Locked", "Aborted", t), rec)
        dropped == map_err(sent.res, "AbortTransferError")
    IN  [ret |-> "Ok", rec |-> sent.rec, sent |-> dropped]

NoCall == [op |-> "-", id |-> 0, preimage |-> 0, ret |-> "-", sent |-> "-",
           before |-> NoRecord, after |-> NoRecord]

-----------------------------------------------------------------------------
(* BridgeContract<A>, the capability set process_action drives *)

\* A::try_from(Vec<u8>): fails unless the bytes have the length of A.
try_into(recipient, len) == IF recipient.len = len THEN "Ok" ELSE "Err"

\* lock_bridge_transfer: LockTransferAssetsError when the contract rejects the lock.
lock_bridge_transfer(rec, hash_lock, recipient, amount, t, transport) ==
    LET sent == send_transaction(transport, ContractLock(rec, hash_lock, recipient, amount, t), rec)
    IN  [ret |-> map_err(sent.res, IF transport = "down" THEN "CallError"
                                   ELSE "LockTransferAssetsError"),
         rec |-> sent.rec]

\* initiator_complete_bridge_transfer: reveals the preimage on the locked side.
initiator_complete_bridge_transfer(rec, preimage, transport) ==
    LET sent == send_transaction(transport, ContractComplete(rec, "Locked", preimage), rec)
    IN  [ret |-> map_err(sent.res, IF transport = "down" THEN "CallError"
                                   ELSE "CompleteTransferError"),
         rec |-> sent.rec]

\* movement_utils::fund_recipient: the faucet funds the account, or fails.
FundResults == {"Ok", "FundingError"}

-----------------------------------------------------------------------------
(* process_action and the units of work it returns *)

\* The arguments of a call of lock_bridge_transfer besides the recipient.
NoArguments ==
    [bridge_transfer_id |-> 0, hash_lock |-> 0, initiator |-> NoAddress, amount |-> 0]

\* What the lock future hands to client.lock_bridge_transfer: the fields bound from
\* the LockBridgeTransfer kind of the action.
lock_arguments(action) ==
    [bridge_transfer_id |-> action.bridge_transfer_id, hash_lock |-> action.hash_lock,
     initiator |-> action.initiator, amount |-> action.amount]

\* A unit of work: locked_with holds the arguments of the lock call it made.
NewUnit(action) ==
    [action |-> action, pc |-> "start", started |-> -1, wake |-> -1,
     fund_calls |-> 0, lock_calls |-> 0, complete_calls |-> 0, called_at |-> -1,
     raw |-> "-", result |-> Pending, locked_with |-> NoArguments]

NilUnit == NewUnit(NilAction)

\* process_action returning a future for TransferDone too.
process_action_done_unit(action) ==
    IF action.kind \in {"LockBridgeTransfer", "WaitAndCompleteInitiator", "TransferDone"}
    THEN [some |-> TRUE, unit |-> NewUnit(action)]
    ELSE [some |-> FALSE, unit |-> NilUnit]

\* process_action returning a future for RefundInitiator too.
process_action_refund_unit(action) ==
    IF action.kind \in {"LockBridgeTransfer", "WaitAndCompleteInitiator", "RefundInitiator"}
    THEN [some |-> TRUE, unit |-> NewUnit(action)]
    ELSE [some |-> FALSE, unit |-> NilUnit]

\* process_action returning a future for LockBridgeTransfer alone.
process_action_lock_only(action) ==
    IF action.kind = "LockBridgeTransfer"
    THEN [some |-> TRUE, unit |-> NewUnit(action)]
    ELSE [some |-> FALSE, unit |-> NilUnit]

\* process_action: Some(future) for the two kinds that need a call, None otherwise.
process_action(action) ==
    CASE action.kind = "LockBridgeTransfer" -> [some |-> TRUE, unit |-> NewUnit(action)]
      [] action.kind = "WaitAndCompleteInitiator" -> [some |-> TRUE, unit |-> NewUnit(action)]
      [] action.kind = "RefundInitiator" -> [some |-> FALSE, unit |-> NilUnit]
      [] action.kind = "TransferDone" -> [some |-> FALSE, unit |-> NilUnit]
      [] action.kind = "NoAction" -> [some |-> FALSE, unit |-> NilUnit]

\* if recipient.0.len() == 32
needs_funding(recipient) == recipient.len = MovementAddressLen

\* after_fund going on to the lock whatever fund_recipient returned.
after_fund_ignore(u, e) ==
    [u EXCEPT !.pc = "funded", !.fund_calls = @ + 1]

\* The lock future after fund_recipient returned e.
after_fund(u, e) ==
    IF e # "Ok"
    THEN [u EXCEPT !.pc = "done", !.fund_calls = @ + 1,
                   !.result = ActionExecError(u.action, e)]
    ELSE [u EXCEPT !.pc = "funded", !.fund_calls = @ + 1]

\* after_lock calling again when the call failed.
after_lock_retry(u, ret) ==
    [u EXCEPT !.pc = IF ret = "Ok" THEN "done" ELSE @, !.lock_calls = @ + 1,
              !.result = IF ret = "Ok" THEN OkResult ELSE ActionExecError(u.action, ret)]

\* after_lock with the error of the call dropped.
after_lock_swallow(u, ret) ==
    [u EXCEPT !.pc = "done", !.lock_calls = @ + 1, !.result = OkResult]

\* The lock future after lock_bridge_transfer returned ret.
after_lock(u, ret) ==
    [u EXCEPT !.pc = "done", !.lock_calls = @ + 1,
              !.result = IF ret = "Ok" THEN OkResult ELSE ActionExecError(u.action, ret)]

\* The lock future when the recipient bytes do not convert to A.
bad_address(u) ==
    [u EXCEPT !.pc = "done", !.result = ActionExecError(u.action, "BadAddressEncoding")]

\* When the complete future goes on after tokio::time::sleep(wait_time_sec): the
\* Sleep is bound to `_` and dropped without being awaited.
sleep_until(started, wait_time_sec) ==
    IF wait_time_sec # 0 THEN started ELSE started

\* after_complete reporting every failure as one generic error.
after_complete_generic(u, ret, t) ==
    [u EXCEPT !.pc = "done", !.complete_calls = @ + 1, !.called_at = t,
              !.result = IF ret = "Ok" THEN OkResult
                         ELSE ActionExecError(u.action, "GenericError")]

\* The complete future after initiator_complete_bridge_transfer returned ret.
after_complete(u, ret, t) ==
    [u EXCEPT !.pc = "done", !.complete_calls = @ + 1, !.called_at = t,
              !.result = IF ret = "Ok" THEN OkResult ELSE ActionExecError(u.action, ret)]

-----------------------------------------------------------------------------
(* The relayer's state machine, per transfer id *)

NoState ==
    [seen |-> FALSE, locked |-> FALSE, done |-> FALSE, preimage |-> FALSE,
     last |-> "NoAction"]

\* The action an event of `chain` derives, given the local state r of its id.
derive_from_event(chain, ev, r, wait) ==
    IF r.done THEN PlainAction(chain, ev.id, "TransferDone")
    ELSE IF ev.type = "Initiated" /\ chain = ChainA
    THEN TransferAction(ChainB, ev.id, "LockBridgeTransfer", ev.hash_lock, Initiator,
                        ev.recipient, ev.amount, 0, 0)
    ELSE IF ev.type = "Completed" /\ chain = ChainA /\ r.locked
    THEN TransferAction(ChainB, ev.id, "WaitAndCompleteInitiator", 0, NoAddress,
                        NoAddress, 0, wait, ev.preimage)
    ELSE IF ev.type \in TerminalEvents THEN PlainAction(chain, ev.id, "TransferDone")
    ELSE PlainAction(chain, ev.id, "NoAction")

\* The local state after the event.
state_after_event(chain, ev, r, action) ==
    [seen |-> TRUE,
     locked |-> r.locked \/ (ev.type = "Locked" /\ chain = ChainB),
     done |-> r.done \/ ev.type \in TerminalEvents,
     preimage |-> r.preimage \/ action.kind = "WaitAndCompleteInitiator",
     last |-> action.kind]

\* derive_on_poll without the expiry test.
derive_on_poll_no_expiry(id, r, details, t) ==
    IF r.done THEN PlainAction(ChainA, id, "TransferDone")
    ELSE IF r.seen /\ ~r.preimage /\ details.state = "Initiated"
    THEN PlainAction(ChainA, id, "RefundInitiator")
    ELSE PlainAction(ChainA, id, "NoAction")

\* The action a poll tick derives: the refund, once the time lock read from the
\* origin chain has elapsed with no preimage observed.
derive_on_poll(id, r, details, t) ==
    IF r.done THEN PlainAction(ChainA, id, "TransferDone")
    ELSE IF r.seen /\ ~r.preimage /\ details.state = "Initiated" /\ t >= details.time_lock
    THEN PlainAction(ChainA, id, "RefundInitiator")
    ELSE PlainAction(ChainA, id, "NoAction")

-----------------------------------------------------------------------------
(* Integers at the chain boundary: U256 and u64 as big-endian byte strings *)

\* Width in bytes of a U256, as to_be_bytes::<32>() writes it.
U256Bytes == 32
\* Width in bytes of a u64, the width wrapping_to::<u64>() narrows to.
U64Bytes == 8
\* Width in bytes of a u128, the width of a Nonce.
U128Bytes == 16

ByteSamples == {0, 1, 255}
Zeros(n) == [i \in 1 .. n |-> 0]
Fill(n, b) == [i \in 1 .. n |-> b]

\* Every u64 whose bytes are drawn from ByteSamples: 0, 1, 255, 256, .., 2^64 - 1.
U64Samples == [1 .. U64Bytes -> ByteSamples]
\* The u64 values below 2^24 among them.
U64Few == {v \in U64Samples : \A i \in 1 .. U64Bytes - 3 : v[i] = 0}
\* The upper 24 bytes of a U256: zero, 1 (the value 2^64) and all ones.
HighSamples ==
    {Zeros(U256Bytes - U64Bytes),
     Zeros(U256Bytes - U64Bytes - 1) \o <<1>>,
     Fill(U256Bytes - U64Bytes, 255)}
U256Samples == {h \o v : h \in HighSamples, v \in {w \in U64Few : w[U64Bytes - 2] = 0}}

\* U256::from(u64)
U256_from(v) == Zeros(U256Bytes - U64Bytes) \o v

\* wrapping_to::<u64>() returning the upper 64 bits.
wrapping_to_high(u) == SubSeq(u, 1, U64Bytes)

\* Uint::wrapping_to::<u64>(): the low 64 bits, whatever the upper bits hold.
wrapping_to_u64(u) == SubSeq(u, U256Bytes - U64Bytes + 1, U256Bytes)

\* Whether a U256 is below 2^64.
fits_u64(u) == SubSeq(u, 1, U256Bytes - U64Bytes) = Zeros(U256Bytes - U64Bytes)

\* eth_details.amount.into(): From<U256> for Amount cannot fail; it narrows as
\* test_wrapping_to_on_eth_details asserts for eth_details.amount.
amount_into(u) == wrapping_to_u64(u)

-----------------------------------------------------------------------------
(* EthClient, the EVM adapter: reading a transfer record from contract storage *)

\* EthBridgeTransferDetails, the struct the storage word is decoded into.
EthBridgeTransferDetails(amount, time_lock, state) ==
    [amount |-> amount, time_lock |-> time_lock, state |-> state]

EthDetailsSamples ==
    {EthBridgeTransferDetails(a, t, 1) : a \in U256Samples, t \in U256Samples}

NoEthDetails == EthBridgeTransferDetails(Zeros(U256Bytes), Zeros(U256Bytes), 0)

\* BridgeTransferDetails { .. } as both reads build it from the decoded struct.
BridgeTransferDetails(eth_details) ==
    [time_lock |-> wrapping_to_u64(eth_details.time_lock),
     amount |-> amount_into(eth_details.amount),
     state |-> eth_details.state]

NoDetails == [time_lock |-> Zeros(U64Bytes), amount |-> Zeros(U64Bytes), state |-> 0]

\* The first byte of an RLP list is 0xc0 or more.
RlpListHeader == 192
\* The shortest RLP payload of the six fields: amount, originator, recipient,
\* hash_lock, time_lock, state.
EthDetailsPayloadMin == 1 + (1 + EthAddressLen) + (1 + 32) + (1 + 32) + 1 + 1

\* EthBridgeTransferDetails::decode(&mut storage_slice), by derive(RlpDecodable): the
\* buffer must open a list whose payload holds every field.
rlp_decode(buf) ==
    IF buf[1] < RlpListHeader THEN "UnexpectedString"
    ELSE IF Len(buf) - 1 < EthDetailsPayloadMin THEN "InputTooShort"
    ELSE "Ok"

\* The storage of the two contracts at the slot of one transfer id: a word each,
\* zero where no record was written.
StorageWords == {Zeros(U256Bytes), U256_from(Fill(U64Bytes, 1)), Fill(U256Bytes, 255)}
EthStorages == [initiator : StorageWords, counterparty : StorageWords]

\* The addresses of the configuration: each contract's storage goes by its address.
EthConfig == [initiator_contract |-> "initiator", counterparty_contract |-> "counterparty"]
initiator_contract_address == EthConfig.initiator_contract
counterparty_contract_address == EthConfig.counterparty_contract

\* What a read returns, with the address it gave to get_storage_at.
EthErr(desc, address) ==
    [ret |-> "Err", error |-> desc, details |-> NoDetails, address |-> address]
EthSome(details, address) ==
    [ret |-> "Ok(Some)", error |-> "-", details |-> details, address |-> address]

\* The storage read of a transfer record at `address`, then the decoding of the
\* word; eth_details is what the decoder yields when it accepts the word.
read_details(rpc, storage, address, eth_details) ==
    IF rpc = "down" THEN EthErr("could not find storage", address)
    ELSE IF rlp_decode(storage[address]) # "Ok"
    THEN EthErr("could not decode storage", address)
    ELSE EthSome(BridgeTransferDetails(eth_details), address)

\* get_bridge_transfer_details_initiator
get_bridge_transfer_details_initiator(rpc, storage, eth_details) ==
    read_details(rpc, storage, initiator_contract_address, eth_details)

\* get_bridge_transfer_details_counterparty: it reads the storage of the contract at
\* initiator_contract_address().
get_bridge_transfer_details_counterparty(rpc, storage, eth_details) ==
    read_details(rpc, storage, initiator_contract_address, eth_details)

NoEthCall ==
    [op |-> "-", rpc |-> "-", storage |-> [initiator |-> Zeros(U256Bytes),
                                            counterparty |-> Zeros(U256Bytes)],
     eth |-> NoEthDetails, v |-> Zeros(U64Bytes), wide |-> Zeros(U256Bytes),
     ret |-> "-", error |-> "-", details |-> NoDetails, address |-> "-"]

-----------------------------------------------------------------------------
(* The transfer id derivation of test_movement_client_complete_transfer *)

Reverse(bytes) == [i \in 1 .. Len(bytes) |-> bytes[Len(bytes) + 1 - i]]

\* bcs::to_bytes of an unsigned integer: its bytes, little-endian.
bcs_to_bytes(v) == Reverse(v)

NonZero(b) == b # 0

\* normalize_to_32_bytes: every non-zero byte of value, in order, behind zeros that
\* fill the result to 32 bytes.
normalize_to_32_bytes(value) ==
    LET meaningful == SelectSeq(value, NonZero)
        padding_length == 32 - Len(meaningful)
    IN  Zeros(padding_length) \o meaningful

\* keccak256: a digest that stands for exactly the bytes it was computed from.
keccak256(bytes) == [keccak256 |-> bytes]

\* bridge_transfer_id mixing the time of the computation into the hash input.
bridge_transfer_id_salted(initiator_bytes, recipient_bytes, amount, nonce) ==
    keccak256(initiator_bytes \o recipient_bytes
              \o normalize_to_32_bytes(bcs_to_bytes(amount))
              \o normalize_to_32_bytes(bcs_to_bytes(nonce)) \o <<now>>)

\* combined_bytes and its Keccak-256 hash.
bridge_transfer_id(initiator_bytes, recipient_bytes, amount, nonce) ==
    keccak256(initiator_bytes \o recipient_bytes
              \o normalize_to_32_bytes(bcs_to_bytes(amount))
              \o normalize_to_32_bytes(bcs_to_bytes(nonce)))

InitiatorBytes == {Fill(EthAddressLen, b) : b \in {1, 2}}
RecipientBytes == {Fill(MovementAddressLen, b) : b \in {1, 2}}
AmountSamples == {v \in U64Few : v[U64Bytes - 2] = 0}
NonceSamples == {Zeros(U128Bytes - U64Bytes) \o v : v \in {w \in U64Few : w[U64Bytes - 2] = 0}}

NoIdCalc ==
    [op |-> "-", a |-> Zeros(U64Bytes), b |-> Zeros(U64Bytes), ea |-> <<>>, eb |-> <<>>,
     initiator |-> <<>>, recipient |-> <<>>, amount |-> Zeros(U64Bytes),
     nonce |-> Zeros(U128Bytes), chain |-> "-", at |-> 0, id |-> keccak256(<<>>),
     chain2 |-> "-", at2 |-> 0, id2 |-> keccak256(<<>>)]

-----------------------------------------------------------------------------
(* The account chain's bridge module as its client and its monitor see it *)

\* The most accepted calls the account chain takes in one behaviour.
MaxMvtCalls == 2

\* Nonce(n) for a small n: a u128.
Nonce(n) == Zeros(U128Bytes - 1) \o <<n>>

\* The accounts that sign calls on the account chain.
MvtSigners == {Fill(MovementAddressLen, b) : b \in {1, 2}}
\* The account the relayer signs with, and the recipient of the complete test.
MvtRelayer == Fill(MovementAddressLen, 1)
MvtRecipient == Fill(MovementAddressLen, 2)
\* args.amount and the amount of the complete test.
MvtAmounts == {Zeros(U64Bytes - 1) \o <<b>> : b \in {1, TestAmount}}
\* The nonces an incoming transfer may carry.
IncomingNonces == {Nonce(n) : n \in {1, 2}}

\* BridgeContractEvent::Initiated(detail) and BridgeContractEvent::Completed(detail).
BridgeContractEvent(kind, id, initiator, recipient, amount, nonce) ==
    [kind |-> kind, bridge_transfer_id |-> id, initiator |-> initiator,
     recipient |-> recipient, amount |-> amount, nonce |-> nonce]

\* The module reusing the first nonce for every transfer.
next_nonce_fixed(m, signer) == 1

\* The nonce the module gives the next transfer of an initiator.
next_nonce(m, signer) == m.nonce[signer] + 1

\* The module's initiate entry function: it numbers the transfer and emits the event.
mvt_initiate_bridge_transfer(m, signer, recipient, amount) ==
    LET nonce == next_nonce(m, signer)
        id == bridge_transfer_id(signer, recipient, amount, Nonce(nonce))
    IN  [m EXCEPT !.nonce[signer] = nonce,
                  !.emitted = Append(@, BridgeContractEvent("Initiated", id, signer,
                                                            recipient, amount, Nonce(nonce)))]

\* The Completed event carrying the first nonce whatever the call said.
completed_event_first_nonce(id, initiator, recipient, amount, nonce) ==
    BridgeContractEvent("Completed", id, initiator, recipient, amount,
                        Nonce(1))

\* The event the module emits for a completed incoming transfer.
completed_event(id, initiator, recipient, amount, nonce) ==
    BridgeContractEvent("Completed", id, initiator, recipient, amount, nonce)

\* Whether the module accepts a complete call: the id is the hash of the four values
\* and was not completed before.
mvt_complete_accepted(m, id, initiator, recipient, amount, nonce) ==
    /\ id = bridge_transfer_id(initiator, recipient, amount, nonce)
    /\ id \notin m.processed

\* The module's complete entry function.
mvt_complete_bridge_transfer(m, id, initiator, recipient, amount, nonce) ==
    [m EXCEPT !.processed = @ \cup {id},
              !.emitted = Append(@, completed_event(id, initiator, recipient, amount, nonce))]

\* A call as the tests make it: which function, who signed, the arguments.
MvtCall(op, signer, id, initiator, recipient, amount, nonce) ==
    [op |-> op, signer |-> signer, bridge_transfer_id |-> id, initiator |-> initiator,
     recipient |-> recipient, amount |-> amount, nonce |-> nonce]

NoMvt ==
    [nonce |-> [s \in MvtSigners |-> 0], processed |-> {}, emitted |-> <<>>,
     delivered |-> <<>>, calls |-> <<>>, ret |-> "-"]


-----------------------------------------------------------------------------
(* Event extraction from the account chain's transactions *)

\* The most events one transaction of the model carries.
MaxEvents == 2

\* serde_json values: a field of the event data is a string, a number or absent.
JsonString(hex, bytes) == [json |-> "string", hex |-> hex, bytes |-> bytes, n |-> 0]
JsonNumber(n) == [json |-> "number", hex |-> FALSE, bytes |-> <<>>, n |-> n]
JsonAbsent == [json |-> "absent", hex |-> FALSE, bytes |-> <<>>, n |-> 0]

None == [some |-> FALSE, hex |-> FALSE, bytes |-> <<>>, n |-> 0]
\* data.get(key): None for a key the event data does not have.
get(data, key) ==
    IF data[key].json = "absent" THEN None
    ELSE [some |-> TRUE, json |-> data[key].json, hex |-> data[key].hex,
          bytes |-> data[key].bytes, n |-> data[key].n]
\* .and_then(|v| v.as_str())
as_str(v) == v.some /\ v.json = "string"
\* .and_then(|v| v.as_u64())
as_u64(v) == v.some /\ v.json = "number"
\* hex::decode(s.trim_start_matches("0x")) succeeds on hexadecimal digits only.
hex_decode_ok(v) == v.hex
\* Vec<u8>::try_into::<[u8; 32]>() succeeds on 32 bytes only.
try_into_32_ok(bytes) == Len(bytes) = 32

EventFields == {"bridge_transfer_id", "recipient", "amount", "hash_lock", "time_lock"}
BridgeEventNames == {"BridgeTransferInitiatedEvent", "BridgeTransferLockedEvent"}
EventNames == BridgeEventNames \cup {"DepositEvent"}

\* A well-formed bridge event for transfer id b.
GoodData(b) ==
    [f \in EventFields |->
        CASE f = "bridge_transfer_id" -> JsonString(TRUE, Fill(32, b))
          [] f = "recipient" -> JsonString(TRUE, Fill(EthAddressLen, 1))
          [] f = "amount" -> JsonNumber(TestAmount)
          [] f = "hash_lock" -> JsonString(TRUE, Fill(32, 7))
          [] f = "time_lock" -> JsonNumber(TimeLockDuration)]

\* The ways one field of an event goes wrong: absent, of the wrong JSON type, a string
\* that is no hexadecimal, a hexadecimal string of the wrong length.
BadValues(f) ==
    IF f \in {"amount", "time_lock"}
    THEN {JsonAbsent, JsonString(TRUE, <<1>>)}
    ELSE {JsonAbsent, JsonNumber(1), JsonString(FALSE, <<>>),
          JsonString(TRUE, Fill(EthAddressLen, 1))}

MoveEvent(typ, name, data) == [typ |-> typ, name |-> name, data |-> data]

\* Events of every name, well-formed or wrong in one field, and one event whose type is
\* no struct.
EventSamples ==
    {MoveEvent("Struct", name, GoodData(b)) : name \in EventNames, b \in {1, 2}}
    \cup UNION {{MoveEvent("Struct", name, [GoodData(1) EXCEPT ![f] = v]) :
                     name \in BridgeEventNames, v \in BadValues(f)} : f \in EventFields}
    \cup {MoveEvent("U64", "", GoodData(1))}

\* A transaction of the account: a user transaction with its events, or another kind.
UserTransaction(events) == [user |-> TRUE, events |-> events]
OtherTransaction == [user |-> FALSE, events |-> <<>>]
EventLists == UNION {[1 .. n -> EventSamples] : n \in 0 .. MaxEvents}
\* What get_account_transactions returns: no transaction, or transactions of which the
\* last is of either kind.
TransactionLists ==
    {<<>>, <<OtherTransaction>>}
    \cup {<<UserTransaction(events)>> : events \in EventLists}
    \cup {<<UserTransaction(events), OtherTransaction>> :
              events \in {<<e>> : e \in EventSamples}}

\* What an extraction returns: the result, its error, the event it was built from.
Extracted(ret, error, used, id) == [ret |-> ret, error |-> error, used |-> used, id |-> id]

\* The match arm of extract_bridge_transfer_details for a bridge event: every field is
\* required, a missing one is EventNotFound, an undecodable one SerializationError.
details_of_event(events, i) ==
    LET data == events[i].data
        id == get(data, "bridge_transfer_id")
        recipient == get(data, "recipient")
        hash_lock == get(data, "hash_lock")
    IN  IF \/ ~as_str(id)
           \/ ~as_str(recipient)
           \/ ~as_u64(get(data, "amount"))
           \/ ~as_str(hash_lock)
           \/ ~as_u64(get(data, "time_lock"))
        THEN Extracted("Err", "EventNotFound", i, <<>>)
        ELSE IF \/ ~hex_decode_ok(id) \/ ~try_into_32_ok(id.bytes)
                \/ ~hex_decode_ok(recipient)
                \/ ~hex_decode_ok(hash_lock) \/ ~try_into_32_ok(hash_lock.bytes)
        THEN Extracted("Err", "SerializationError", i, <<>>)
        ELSE Extracted("Ok(Some)", "-", i, id.bytes)

RECURSIVE details_from(_, _)
\* The loop over the events of the transaction, from event i on.
details_from(events, i) ==
    IF i > Len(events) THEN Extracted("Err", "EventNotFound", 0, <<>>)
    ELSE IF events[i].typ = "Struct" /\ events[i].name \in BridgeEventNames
    THEN details_of_event(events, i)
    ELSE details_from(events, i + 1)

\* extract_bridge_transfer_details
extract_bridge_transfer_details(rpc, transactions) ==
    IF rpc = "down" THEN Extracted("Err", "CallError", 0, <<>>)
    ELSE IF transactions # <<>> /\ transactions[Len(transactions)].user
    THEN details_from(transactions[Len(transactions)].events, 1)
    ELSE Extracted("Err", "EventNotFound", 0, <<>>)

RECURSIVE id_from(_, _)
\* The loop of extract_bridge_transfer_id: a bridge event whose bridge_transfer_id is
\* no string falls out of the `if let` and the loop goes on.
id_from(events, i) ==
    IF i > Len(events) THEN Extracted("Err", "No matching transaction found", 0, <<>>)
    ELSE IF /\ events[i].typ = "Struct"
            /\ events[i].name \in BridgeEventNames
            /\ as_str(get(events[i].data, "bridge_transfer_id"))
    THEN LET id == get(events[i].data, "bridge_transfer_id")
         IN  IF ~hex_decode_ok(id)
             THEN Extracted("Err", "Failed to decode hex string into Vec<u8>", i, <<>>)
             ELSE IF ~try_into_32_ok(id.bytes)
             THEN Extracted("Err", "Failed to convert decoded Vec<u8> to [u8; 32]", i,
                            <<>>)
             ELSE Extracted("Ok", "-", i, id.bytes)
    ELSE id_from(events, i + 1)

\* extract_bridge_transfer_id
extract_bridge_transfer_id(rpc, transactions) ==
    IF rpc = "down" THEN Extracted("Err", "Failed to get transactions", 0, <<>>)
    ELSE IF transactions # <<>> /\ transactions[Len(transactions)].user
    THEN id_from(transactions[Len(transactions)].events, 1)
    ELSE Extracted("Err", "No matching transaction found", 0, <<>>)

NoExtract == [op |-> "-", rpc |-> "up", transactions |-> <<>>,
              result |-> Extracted("-", "-", 0, <<>>)]

-----------------------------------------------------------------------------
(* EthAddress from bytes *)

\* What a conversion gives: an EthAddress, or the panic of a failed assert_eq!.
Converted(ret, address) == [ret |-> ret, address |-> address]

\* impl From<Vec<u8>> for EthAddress: assert_eq!(vec.len(), 20), then the 20 bytes.
EthAddress_from_vec(vec) ==
    IF Len(vec) # EthAddressLen THEN Converted("panic", <<>>)
    ELSE Converted("EthAddress", vec)

\* impl From<[u8; 32]> for EthAddress: the first 20 bytes of the 32.
EthAddress_from_array(bytes) == Converted("EthAddress", SubSeq(bytes, 1, EthAddressLen))

\* Vec<u8> of every length up to that of an account address.
VecSamples == {Fill(n, b) : n \in 0 .. MovementAddressLen, b \in {1, 255}}
\* [u8; 32]: 20 bytes of one value followed by 12 of another.
ArraySamples ==
    {Fill(EthAddressLen, x) \o Fill(MovementAddressLen - EthAddressLen, y) :
         x \in ByteSamples, y \in ByteSamples}

NoConv == [op |-> "-", a |-> <<>>, b |-> <<>>, ra |-> Converted("-", <<>>),
           rb |-> Converted("-", <<>>)]

-----------------------------------------------------------------------------
(* TransactionPipe: the task between the mempool API and the transaction channel *)

\* The most requests the clients send in one behaviour.
MaxRequests == 3
\* The most requests waiting in mempool_client_receiver.
MaxPending == 1
\* The highest sequence number the ledger commits in one behaviour.
MaxCommitted == 1
\* transactions_in_flight_limit as configured.
InFlightLimit == 1

TOO_NEW_TOLERANCE == 32

Max(a, b) == IF a >= b THEN a ELSE b

\* The accounts that send transactions.
Senders == {"root"}
\* Sequence numbers at both ends of the window of tolerance and beyond.
SequenceNumbers == {0, 1, TOO_NEW_TOLERANCE + 1, TOO_NEW_TOLERANCE + 2}
\* create_signed_transaction(sequence_number, ..), reduced to what the pipe reads.
SignedTransaction(sender, sequence_number) ==
    [sender |-> sender, sequence_number |-> sequence_number]
Transactions == {SignedTransaction(a, n) : a \in Senders, n \in SequenceNumbers}

\* What the VM validator says of a transaction: None, or a status that discards it.
VmStatuses == {"None", "INVALID_SIGNATURE"}

\* SequenceNumberValidity
Valid(sequence_number) ==
    [valid |-> TRUE, sequence_number |-> sequence_number, code |-> "-", vm_status |-> "-"]
Invalid(code, vm_status) ==
    [valid |-> FALSE, sequence_number |-> 0, code |-> code, vm_status |-> vm_status]

\* has_invalid_sequence_number: the pool's entry for the sender, or the transaction's
\* own number when the pool has none, and the committed number bound the window.
has_invalid_sequence_number(p, transaction) ==
    LET entry == p.used[transaction.sender]
        used_sequence_number ==
            IF entry # <<>> THEN entry[1] ELSE transaction.sequence_number
        committed_sequence_number == p.committed[transaction.sender]
        min_sequence_number == Max(used_sequence_number, committed_sequence_number)
        max_sequence_number ==
            Max(used_sequence_number, committed_sequence_number) + TOO_NEW_TOLERANCE
    IN  IF transaction.sequence_number < min_sequence_number
        THEN Invalid("InvalidSeqNumber", "SEQUENCE_NUMBER_TOO_OLD")
        ELSE IF transaction.sequence_number > max_sequence_number
        THEN Invalid("InvalidSeqNumber", "SEQUENCE_NUMBER_TOO_NEW")
        ELSE Valid(committed_sequence_number)

\* core_mempool.add_txn turning down a transaction the pipe has forwarded before.
add_txn_once(p, transaction, db_sequence_number, room) ==
    IF transaction.sequence_number < db_sequence_number THEN "InvalidSeqNumber"
    ELSE IF \E i \in 1 .. Len(p.output) : p.output[i] = transaction THEN "InvalidUpdate"
    ELSE IF room THEN "Accepted"
    ELSE "MempoolIsFull"

\* core_mempool.add_txn: the mempool's own verdict on a transaction that passed.
add_txn(p, transaction, db_sequence_number, room) ==
    IF transaction.sequence_number < db_sequence_number THEN "InvalidSeqNumber"
    ELSE IF room THEN "Accepted"
    ELSE "MempoolIsFull"

\* What submit_transaction returns and whether it sent the transaction on.
Submitted(result, code, vm_status, forwarded) ==
    [result |-> result, code |-> code, vm_status |-> vm_status, forwarded |-> forwarded]

\* A submit_transaction that sends the transaction on before it looks at the
\* mempool's verdict.
submit_transaction_send_first(p, transaction, db, vm, room) ==
    IF p.in_flight > p.in_flight_limit
    THEN Submitted("Ok", "MempoolIsFull", "None", FALSE)
    ELSE IF db = "down" THEN Submitted("Err", "-", "-", FALSE)
    ELSE IF vm # "None" THEN Submitted("Ok", "VmError", vm, FALSE)
    ELSE LET validity == has_invalid_sequence_number(p, transaction)
         IN  IF ~validity.valid
             THEN Submitted("Ok", validity.code, validity.vm_status, FALSE)
             ELSE IF p.rx_closed THEN Submitted("Err", "-", "-", FALSE)
             ELSE Submitted("Ok", add_txn(p, transaction, validity.sequence_number, room),
                            "None", TRUE)

\* submit_transaction up to its result; db, vm and room are what the ledger, the VM
\* validator and the mempool answer.
submit_transaction(p, transaction, db, vm, room) ==
    IF p.in_flight > p.in_flight_limit
    THEN Submitted("Ok", "MempoolIsFull", "None", FALSE)
    ELSE IF db = "down" THEN Submitted("Err", "-", "-", FALSE)
    ELSE IF vm # "None" THEN Submitted("Ok", "VmError", vm, FALSE)
    ELSE LET validity == has_invalid_sequence_number(p, transaction)
         IN  IF ~validity.valid
             THEN Submitted("Ok", validity.code, validity.vm_status, FALSE)
             ELSE LET code == add_txn(p, transaction, validity.sequence_number, room)
                  IN  IF code # "Accepted" THEN Submitted("Ok", code, "None", FALSE)
                      ELSE IF p.rx_closed THEN Submitted("Err", "-", "-", FALSE)
                      ELSE Submitted("Ok", "Accepted", "None", TRUE)

\* A request: what was asked, whether the submitter still holds its callback, and once
\* the pipe has ticked on it, what tick returned, the status, what the callback
\* received, how often the transaction had been forwarded before and was forwarded
\* by this tick, the length of the output channel, the pool entry, committed number
\* and counter tick found, whether the receiver was gone, whether the ledger could
\* be read, and the pool entry submit_transaction left.
Request(kind, transaction, callback) ==
    [kind |-> kind, transaction |-> transaction, callback |-> callback, tick |-> "-",
     code |-> "-", vm_status |-> "-", answer |-> "-", before |-> 0, forwarded |-> 0,
     output |-> 0, used |-> <<>>, committed |-> 0, in_flight |-> 0, rx_closed |-> FALSE,
     db |-> "-", used_after |-> <<>>]

\* How often a transaction is on the output channel.
Forwarded(output, transaction) ==
    Cardinality({i \in 1 .. Len(output) : output[i] = transaction})

\* callback.send(Ok(status)) whose failure fails the tick.
callback_send_strict(callback, submitted) ==
    IF callback = "dropped" THEN [tick |-> "Err", answer |-> "-"]
    ELSE [tick |-> "Ok", answer |-> submitted.code]

\* callback.send(Ok(status)).unwrap_or_else(..): a dropped callback is only logged.
callback_send(callback, submitted) ==
    [tick |-> "Ok", answer |-> IF callback = "dropped" THEN "-" ELSE submitted.code]

\* The transaction channel handing out the newest transaction first.
send_front(output, transaction) == <<transaction>> \o output

\* transaction_sender.send(transaction): the channel keeps the order of the sends.
send(output, transaction) == Append(output, transaction)

NoTransaction == SignedTransaction("-", 0)

\* The pipe as Executor::background builds it: input and output channels, the shared
\* counter, the pool, the ledger's committed numbers; sent counts the requests handed
\* in, last is the request of the latest tick, halted that run has returned and
\* input_closed that every mempool_client_sender is gone.
NewPipe ==
    [pending |-> <<>>, sent |-> 0, last |-> Request("-", NoTransaction, "-"),
     output |-> <<>>, rx_closed |-> FALSE, in_flight |-> 0,
     in_flight_limit |-> InFlightLimit, used |-> [a \in Senders |-> <<>>],
     committed |-> [a \in Senders |-> 0], halted |-> FALSE, input_closed |-> FALSE]

-----------------------------------------------------------------------------
(* The Celestia verifier of the light node *)

\* The highest height blobs are included at in one behaviour.
MaxHeight == 2

\* The data of the tests: vec![0, .., 8, 9] and vec![0, .., 8, 7], by their last byte.
BlobData == {<<9>>, <<7>>}
\* A Celestia blob: its data are the zstd-compressed bcs bytes of an InnerBlob that
\* carries inner, or they are anything else.
Blob(inner, wellformed) == [inner |-> inner, wellformed |-> wellformed]
Blobs == {Blob(d, w) : d \in BlobData, w \in BOOLEAN}

\* InnerBlob::try_from(blob): zstd::decode_all, then bcs::from_bytes.
InnerBlob_try_from(blob) ==
    IF blob.wellformed THEN [ok |-> TRUE, inner |-> blob.inner]
    ELSE [ok |-> FALSE, inner |-> <<>>]

\* Verifier::verify(blob, _height): the blob must decode; neither the height nor the
\* client is looked at.
verify(blob, height) ==
    LET inner_blob == InnerBlob_try_from(blob)
    IN  IF inner_blob.ok THEN [ret |-> "Ok", verified |-> inner_blob.inner]
        ELSE [ret |-> "Err", verified |-> <<>>]

NoDa == [height |-> 0, included |-> {}, op |-> "-", blob |-> Blob(<<>>, FALSE),
         at |-> 0, ret |-> "-", verified |-> <<>>]

-----------------------------------------------------------------------------
(* The verifiers of signed blobs *)

\* The keys that sign blobs.
SignerKeys == {1, 2}
\* The sec1 bytes a blob names its signer with: the compressed or the uncompressed
\* point of a key, or bytes that are no point at all.
Sec1Encodings == {"compressed", "uncompressed", "malformed"}
Sec1Bytes(key, encoding) == [key |-> key, encoding |-> encoding]

\* The digest of try_verify: the hash over the blob, then the timestamp's bytes.
Digest(blob, timestamp) == [blob |-> blob, timestamp |-> timestamp]
\* Signature bytes: the key that made them and the digest they are over, or bytes
\* that are no signature.
Signature(by, over, wellformed) == [by |-> by, over |-> over, wellformed |-> wellformed]

\* InnerBlob::SignedV1 with its data, signature and signer.
InnerSignedBlobV1(blob, timestamp, signature, signer) ==
    [data |-> [blob |-> blob, timestamp |-> timestamp], signature |-> signature,
     signer |-> signer]

SignedBlobs ==
    {InnerSignedBlobV1(d, 0, Signature(by, Digest(over, 0), w), Sec1Bytes(k, e)) :
         d \in BlobData, by \in SignerKeys, over \in BlobData, w \in BOOLEAN,
         k \in SignerKeys, e \in Sec1Encodings}

\* InnerSignedBlobV1Data::try_verify: the key and the signature are parsed, then the
\* signature is checked against the digest under the key.
try_verify(data, signature, signer) ==
    IF signer.encoding = "malformed" THEN "signature error"
    ELSE IF ~signature.wellformed THEN "signature error"
    ELSE IF signature.by = signer.key /\ signature.over = Digest(data.blob, data.timestamp)
    THEN "Ok"
    ELSE "Failed to verify signature"

\* InnerBlob::verify_signature
verify_signature(blob) == try_verify(blob.data, blob.signature, blob.signer)

\* hex::encode: the lower-case hex string of the bytes, one string per byte string.
hex_encode(bytes) == [hex |-> bytes]
\* InnerBlob::signer_hex
signer_hex(blob) == hex_encode(blob.signer)

NoInnerBlob ==
    InnerSignedBlobV1(<<>>, 0, Signature(0, Digest(<<>>, 0), FALSE), Sec1Bytes(0, "-"))

\* Result<Verified<InnerBlob>, Error>
Verified(blob) == [ret |-> "Ok", error |-> "-", verified |-> blob]
Validation(message) == [ret |-> "Err", error |-> message, verified |-> NoInnerBlob]

\* Verifier::verify(blob, _height)
Verifier_verify(blob, height) ==
    LET checked == verify_signature(blob)
    IN  IF checked # "Ok" THEN Validation(checked) ELSE Verified(blob)

\* A verifier of known signers that leaves the signature to its caller.
InKnownSignersVerifier_verify_membership_only(known_signers_sec1_bytes_hex, blob, height) ==
    IF signer_hex(blob) \notin known_signers_sec1_bytes_hex
    THEN Validation("signer not in known signers")
    ELSE Verified(blob)

\* InKnownSignersVerifier::verify(blob, height): the inner verifier first, then the
\* signer's hex string is looked up in the set.
InKnownSignersVerifier_verify(known_signers_sec1_bytes_hex, blob, height) ==
    LET inner_blob == Verifier_verify(blob, height)
    IN  IF inner_blob.ret = "Err" THEN inner_blob
        ELSE IF signer_hex(inner_blob.verified) \notin known_signers_sec1_bytes_hex
        THEN Validation("signer not in known signers")
        ELSE inner_blob

\* The hex strings a configuration lists as known signers.
KnownSignerSamples ==
    SUBSET ({hex_encode(Sec1Bytes(k, "compressed")) : k \in SignerKeys}
            \cup {hex_encode(Sec1Bytes(1, "uncompressed"))})

NoSigned ==
    [built |-> FALSE, known_signers_sec1_bytes_hex |-> {}, op |-> "-",
     blob |-> NoInnerBlob, height |-> 0, result |-> Validation("-")]

-----------------------------------------------------------------------------
(* The transaction ingress task of the full node *)

\* The most transactions sent into the channel in one behaviour.
MaxIngress == 2

\* The transactions the channel carries, by their sequence number.
IngressTransactions == {SignedTransaction("root", n) : n \in {0, 1}}

\* What one pass of build_and_write_batch gives back.
Continue == "Continue"
Break == "Break"

\* A run loop that keeps going when the stream is closed.
run_ignoring_break(flow) ==
    IF flow = "Err" THEN "Err" ELSE "-"

\* Task::run: while let Continue = build_and_write_batch().await? {} Ok(()); "-" is
\* a loop that goes on.
run(flow) ==
    IF flow = "Err" THEN "Err"
    ELSE IF flow = Continue THEN "-"
    ELSE "Ok"

\* The task as Task::new builds it, its channel and the writes it spawned: channel
\* holds what was sent and not yet received, closed that every sender is gone,
\* transactions is the batch under construction, written the batches handed to the
\* DA, ret what run returned and error which call failed.
NewTask ==
    [started |-> FALSE, config |-> "-", channel |-> <<>>, sent |-> 0, closed |-> FALSE,
     transactions |-> <<>>, written |-> <<>>, ret |-> "-", error |-> "-"]

-----------------------------------------------------------------------------
(* Initial state *)

Init ==
    /\ now = 0
    /\ chainA = [id \in Ids |-> NoRecord]
    /\ chainB = [id \in Ids |-> NoRecord]
    /\ qA = <<>>
    /\ qB = <<>>
    /\ relayer = [id \in Ids |-> NoState]
    /\ units = <<>>
    /\ paLog = [kind |-> "-", transfer_id |-> 0, some |-> FALSE]
    /\ mvCall = NoCall
    /\ redelivered = 0
    /\ addrLenB \in AddressLens
    /\ ethCall = NoEthCall
    /\ idCalc = NoIdCalc
    /\ mvt = NoMvt
    /\ extract = NoExtract
    /\ conv = NoConv
    /\ pipe = NewPipe
    /\ da = NoDa
    /\ signed = NoSigned
    /\ ingress = NewTask

-----------------------------------------------------------------------------
(* The chains and their users *)

Tick ==
    /\ now < MaxTime
    /\ now' = now + 1
    /\ UNCHANGED <<chainA, chainB, qA, qB, relayer, units, paLog, mvCall, redelivered, addrLenB, ethCall, idCalc, mvt, extract, conv, pipe, da,
                signed, ingress>>

\* The initiator starts a transfer on the origin chain.
Initiate(id, recipient, secret) ==
    LET out == ContractInitiate(chainA[id], HashOf(secret), recipient, TestAmount, now)
    IN  /\ out.ok
        /\ chainA' = [chainA EXCEPT ![id] = out.rec]
        /\ qA' = Append(qA, Event("Initiated", id, out.rec, 0))
        /\ UNCHANGED <<now, chainB, qB, relayer, units, paLog, mvCall, redelivered, addrLenB, ethCall, idCalc, mvt, extract, conv, pipe, da,
                signed, ingress>>

\* The initiator reveals the preimage by completing on the origin chain.
RevealOnOrigin(id, preimage) ==
    LET out == ContractComplete(chainA[id], "Initiated", preimage)
    IN  /\ out.ok
        /\ chainA' = [chainA EXCEPT ![id] = out.rec]
        /\ qA' = Append(qA, Event("Completed", id, out.rec, preimage))
        /\ UNCHANGED <<now, chainB, qB, relayer, units, paLog, mvCall, redelivered, addrLenB, ethCall, idCalc, mvt, extract, conv, pipe, da,
                signed, ingress>>

\* The initiator takes the funds back on the origin chain.
RefundOnOrigin(id) ==
    LET out == ContractExpire(chainA[id], "Initiated", "Refunded", now)
    IN  /\ out.ok
        /\ chainA' = [chainA EXCEPT ![id] = out.rec]
        /\ qA' = Append(qA, Event("Refunded", id, out.rec, 0))
        /\ UNCHANGED <<now, chainB, qB, relayer, units, paLog, mvCall, redelivered, addrLenB, ethCall, idCalc, mvt, extract, conv, pipe, da,
                signed, ingress>>

\* The lock on the destination chain is aborted after its time lock.
AbortOnDestination(id) ==
    LET out == ContractExpire(chainB[id], "Locked", "Aborted", now)
    IN  /\ out.ok
        /\ chainB' = [chainB EXCEPT ![id] = out.rec]
        /\ qB' = Append(qB, Event("Aborted", id, out.rec, 0))
        /\ UNCHANGED <<now, chainA, qA, relayer, units, paLog, mvCall, redelivered, addrLenB, ethCall, idCalc, mvt, extract, conv, pipe, da,
                signed, ingress>>

\* The monitor of chain A restarts and delivers an Initiated event again.
MonitorRedeliver(id) ==
    /\ redelivered < MaxRedeliver
    /\ chainA[id].state # "None"
    /\ redelivered' = redelivered + 1
    /\ qA' = Append(qA, Event("Initiated", id, chainA[id], 0))
    /\ UNCHANGED <<now, chainA, chainB, qB, relayer, units, paLog, mvCall, addrLenB, ethCall, idCalc, mvt, extract, conv, pipe, da,
                signed, ingress>>

\* A call of MovementClient::lock_bridge_transfer_assets.
MovementLock(id, secret, recipient, transport) ==
    LET call == lock_bridge_transfer_assets(chainB[id], HashOf(secret), recipient,
                                            TestAmount, now, transport)
    IN  /\ chainB' = [chainB EXCEPT ![id] = call.rec]
        /\ qB' = IF call.rec # chainB[id]
                 THEN Append(qB, Event("Locked", id, call.rec, 0)) ELSE qB
        /\ mvCall' = [op |-> "lock", id |-> id, preimage |-> 0, ret |-> call.ret,
                      sent |-> call.sent, before |-> chainB[id], after |-> call.rec]
        /\ UNCHANGED <<now, chainA, qA, relayer, units, paLog, redelivered, addrLenB, ethCall, idCalc, mvt, extract, conv, pipe, da,
                signed, ingress>>

\* A call of MovementClient::complete_bridge_transfer.
MovementComplete(id, preimage, transport) ==
    LET call == complete_bridge_transfer(chainB[id], preimage, transport)
    IN  /\ chainB' = [chainB EXCEPT ![id] = call.rec]
        /\ qB' = IF call.rec # chainB[id]
                 THEN Append(qB, Event("Completed", id, call.rec, preimage)) ELSE qB
        /\ mvCall' = [op |-> "complete", id |-> id, preimage |-> preimage, ret |-> call.ret,
                      sent |-> call.sent, before |-> chainB[id], after |-> call.rec]
        /\ UNCHANGED <<now, chainA, qA, relayer, units, paLog, redelivered, addrLenB, ethCall, idCalc, mvt, extract, conv, pipe, da,
                signed, ingress>>

\* A call of MovementClient::abort_bridge_transfer.
MovementAbort(id, transport) ==
    LET call == abort_bridge_transfer(chainB[id], now, transport)
    IN  /\ chainB' = [chainB EXCEPT ![id] = call.rec]
        /\ qB' = IF call.rec # chainB[id]
                 THEN Append(qB, Event("Aborted", id, call.rec, 0)) ELSE qB
        /\ mvCall' = [op |-> "abort", id |-> id, preimage |-> 0, ret |-> call.ret,
                      sent |-> call.sent, before |-> chainB[id], after |-> call.rec]
        /\ UNCHANGED <<now, chainA, qA, relayer, units, paLog, redelivered, addrLenB, ethCall, idCalc, mvt, extract, conv, pipe, da,
                signed, ingress>>

-----------------------------------------------------------------------------
(* The relayer loop *)

Spawn(pa) == IF pa.some THEN Append(units, pa.unit) ELSE units

\* Consume awaiting every unit it spawned before it takes the next event.
Consume_awaiting(chain, q, wait) ==
    LET ev == Head(q)
        action == derive_from_event(chain, ev, relayer[ev.id], wait)
        pa == process_action(action)
    IN  /\ \A i \in DOMAIN units : units[i].pc = "done"
        /\ pa.some => Len(units) < MaxUnits
        /\ relayer' = [relayer EXCEPT ![ev.id] = state_after_event(chain, ev, @, action)]
        /\ units' = Spawn(pa)
        /\ paLog' = [kind |-> action.kind, transfer_id |-> action.transfer_id, some |-> pa.some]

\* The loop takes the next event of a monitor, derives its action and hands it to
\* process_action; the unit it gets back is spawned, not awaited.
Consume(chain, q, wait) ==
    LET ev == Head(q)
        action == derive_from_event(chain, ev, relayer[ev.id], wait)
        pa == process_action(action)
    IN  /\ pa.some => Len(units) < MaxUnits
        /\ relayer' = [relayer EXCEPT ![ev.id] = state_after_event(chain, ev, @, action)]
        /\ units' = Spawn(pa)
        /\ paLog' = [kind |-> action.kind, transfer_id |-> action.transfer_id, some |-> pa.some]

RelayerConsumeA ==
    /\ qA # <<>>
    /\ \E wait \in IF Head(qA).type = "Completed" THEN Waits ELSE {0} :
           Consume(ChainA, qA, wait)
    /\ qA' = Tail(qA)
    /\ UNCHANGED <<now, chainA, chainB, qB, mvCall, redelivered, addrLenB, ethCall, idCalc, mvt, extract, conv, pipe, da,
                signed, ingress>>

RelayerConsumeB ==
    /\ qB # <<>>
    /\ Consume(ChainB, qB, 0)
    /\ qB' = Tail(qB)
    /\ UNCHANGED <<now, chainA, chainB, qA, mvCall, redelivered, addrLenB, ethCall, idCalc, mvt, extract, conv, pipe, da,
                signed, ingress>>

\* A poll tick for a transfer the relayer knows: the origin record is read again.
RelayerPoll(id) ==
    LET action == derive_on_poll(id, relayer[id], chainA[id], now)
        pa == process_action(action)
    IN  /\ relayer[id].seen
        /\ pa.some => Len(units) < MaxUnits
        /\ relayer' = [relayer EXCEPT ![id].last =
                           IF action.kind = "NoAction" THEN @ ELSE action.kind]
        /\ units' = Spawn(pa)
        /\ paLog' = [kind |-> action.kind, transfer_id |-> action.transfer_id, some |-> pa.some]
        /\ UNCHANGED <<now, chainA, chainB, qA, qB, mvCall, redelivered, addrLenB, ethCall, idCalc, mvt, extract, conv, pipe, da,
                signed, ingress>>

-----------------------------------------------------------------------------
(* The steps of a unit of work *)

IsLock(u) == u.action.kind = "LockBridgeTransfer"
IsComplete(u) == u.action.kind = "WaitAndCompleteInitiator"

\* fund_recipient(&recipient).await
UnitFund(i, e) ==
    LET u == units[i]
    IN  /\ IsLock(u) /\ u.pc = "start" /\ needs_funding(u.action.recipient)
        /\ units' = [units EXCEPT ![i] = [after_fund(u, e) EXCEPT !.raw = e]]
        /\ UNCHANGED <<now, chainA, chainB, qA, qB, relayer, paLog, mvCall, redelivered, addrLenB, ethCall, idCalc, mvt, extract, conv, pipe, da,
                signed, ingress>>

\* recipient.0.try_into() and client.lock_bridge_transfer(..).await
UnitLock(i, transport) ==
    LET u == units[i]
        a == u.action
        arguments == lock_arguments(a)
        id == arguments.bridge_transfer_id
        call == lock_bridge_transfer(chainB[id], arguments.hash_lock, a.recipient,
                                     arguments.amount, now, transport)
    IN  /\ IsLock(u)
        /\ u.pc = "funded" \/ (u.pc = "start" /\ ~needs_funding(a.recipient))
        /\ IF try_into(a.recipient, addrLenB) = "Err"
           THEN /\ units' = [units EXCEPT ![i] =
                                [bad_address(u) EXCEPT !.raw = "BadAddressEncoding"]]
                /\ UNCHANGED <<chainB, qB>>
           ELSE /\ units' = [units EXCEPT ![i] =
                                [after_lock(u, call.ret) EXCEPT
                                     !.raw = call.ret, !.locked_with = arguments]]
                /\ chainB' = [chainB EXCEPT ![id] = call.rec]
                /\ qB' = IF call.ret = "Ok"
                         THEN Append(qB, Event("Locked", id, call.rec, 0)) ELSE qB
        /\ UNCHANGED <<now, chainA, qA, relayer, paLog, mvCall, redelivered, addrLenB, ethCall, idCalc, mvt, extract, conv, pipe, da,
                signed, ingress>>

\* The complete future is polled for the first time.
UnitStart(i) ==
    LET u == units[i]
    IN  /\ IsComplete(u) /\ u.pc = "start"
        /\ units' = [units EXCEPT ![i] =
                        [u EXCEPT !.pc = "sleeping", !.started = now,
                                  !.wake = sleep_until(now, u.action.wait)]]
        /\ UNCHANGED <<now, chainA, chainB, qA, qB, relayer, paLog, mvCall, redelivered, addrLenB, ethCall, idCalc, mvt, extract, conv, pipe, da,
                signed, ingress>>

\* client.initiator_complete_bridge_transfer(action.transfer_id, secret).await
UnitComplete(i, transport) ==
    LET u == units[i]
        id == u.action.transfer_id
        call == initiator_complete_bridge_transfer(chainB[id], u.action.secret, transport)
    IN  /\ IsComplete(u) /\ u.pc = "sleeping"
        /\ now >= u.wake
        /\ units' = [units EXCEPT ![i] =
                        [after_complete(u, call.ret, now) EXCEPT !.raw = call.ret]]
        /\ chainB' = [chainB EXCEPT ![id] = call.rec]
        /\ qB' = IF call.ret = "Ok"
                 THEN Append(qB, Event("Completed", id, call.rec, u.action.secret)) ELSE qB
        /\ UNCHANGED <<now, chainA, qA, relayer, paLog, mvCall, redelivered, addrLenB, ethCall, idCalc, mvt, extract, conv, pipe, da,
                signed, ingress>>

\* process_action(action, client) called with an action of the caller's making: the
\* unit it returns is spawned.
ProcessAction(action) ==
    LET pa == process_action(action)
    IN  /\ Len(units) < MaxUnits
        /\ units' = Spawn(pa)
        /\ paLog' = [kind |-> action.kind, transfer_id |-> action.transfer_id, some |-> pa.some]
        /\ UNCHANGED <<now, chainA, chainB, qA, qB, relayer, mvCall, redelivered, addrLenB,
                       ethCall, idCalc, mvt, extract, conv, pipe, da, signed, ingress>>

-----------------------------------------------------------------------------
(* Cancellation: a unit of work is dropped, the process restarts *)

Cancelled == [tag |-> "Cancelled", action |-> NilAction, error |-> "-"]

\* The future is dropped: it is never polled again and returns nothing.
abandon(u) == [u EXCEPT !.pc = "done", !.result = Cancelled]

\* Unit i is dropped while it waits to be polled: before funding, between funding
\* and the lock, or before the complete call.
UnitAbandon(i) ==
    /\ units[i].pc # "done"
    /\ units' = [units EXCEPT ![i] = abandon(@)]
    /\ UNCHANGED <<now, chainA, chainB, qA, qB, relayer, paLog, mvCall, redelivered, addrLenB, ethCall, idCalc, mvt, extract, conv, pipe, da,
                signed, ingress>>

\* Unit i is dropped during client.lock_bridge_transfer(..).await: the transaction
\* was sent and the chain includes it, its result is never seen.
UnitAbandonInLock(i) ==
    LET u == units[i]
        a == u.action
        id == a.bridge_transfer_id
        call == lock_bridge_transfer(chainB[id], a.hash_lock, a.recipient, a.amount, now, "up")
    IN  /\ IsLock(u)
        /\ u.pc = "funded" \/ (u.pc = "start" /\ ~needs_funding(a.recipient))
        /\ try_into(a.recipient, addrLenB) = "Ok"
        /\ units' = [units EXCEPT ![i] = abandon([u EXCEPT !.lock_calls = @ + 1])]
        /\ chainB' = [chainB EXCEPT ![id] = call.rec]
        /\ qB' = IF call.ret = "Ok" THEN Append(qB, Event("Locked", id, call.rec, 0)) ELSE qB
        /\ UNCHANGED <<now, chainA, qA, relayer, paLog, mvCall, redelivered, addrLenB, ethCall, idCalc, mvt, extract, conv, pipe, da,
                signed, ingress>>

\* Unit i is dropped during client.initiator_complete_bridge_transfer(..).await.
UnitAbandonInComplete(i) ==
    LET u == units[i]
        id == u.action.transfer_id
        call == initiator_complete_bridge_transfer(chainB[id], u.action.secret, "up")
    IN  /\ IsComplete(u) /\ u.pc = "sleeping"
        /\ units' = [units EXCEPT ![i] = abandon([u EXCEPT !.complete_calls = @ + 1])]
        /\ chainB' = [chainB EXCEPT ![id] = call.rec]
        /\ qB' = IF call.ret = "Ok"
                 THEN Append(qB, Event("Completed", id, call.rec, u.action.secret)) ELSE qB
        /\ UNCHANGED <<now, chainA, qA, relayer, paLog, mvCall, redelivered, addrLenB, ethCall, idCalc, mvt, extract, conv, pipe, da,
                signed, ingress>>

\* The preimage a Completed record was released with.
Revealed(rec) == CHOOSE p \in Preimages : HashOf(p) = rec.hash_lock

\* The events a restarted monitor reads from its chain for one id, in chain order.
ReplayOne(chain, id) ==
    LET rec == IF chain = ChainA THEN chainA[id] ELSE chainB[id]
        first == IF chain = ChainA THEN "Initiated" ELSE "Locked"
    IN  IF rec.state = "None" THEN <<>>
        ELSE <<Event(first, id, rec, 0)>>
             \o (IF rec.state = "Completed"
                 THEN <<Event("Completed", id, rec, Revealed(rec))>>
                 ELSE IF rec.state \in {"Refunded", "Aborted"}
                 THEN <<Event(rec.state, id, rec, 0)>>
                 ELSE <<>>)

RECURSIVE Replay(_, _)
Replay(chain, upto) ==
    IF upto = 0 THEN <<>> ELSE Replay(chain, upto - 1) \o ReplayOne(chain, upto)

\* The process is shut down and started again: every running unit is dropped, the
\* relayer's local state is lost and both monitors deliver their chain's events anew.
Restart ==
    /\ redelivered < MaxRedeliver
    /\ redelivered' = redelivered + 1
    /\ units' = [i \in DOMAIN units |->
                    IF units[i].pc = "done" THEN units[i] ELSE abandon(units[i])]
    /\ relayer' = [id \in Ids |-> NoState]
    /\ qA' = Replay(ChainA, MaxIds)
    /\ qB' = Replay(ChainB, MaxIds)
    /\ UNCHANGED <<now, chainA, chainB, paLog, mvCall, addrLenB, ethCall, idCalc, mvt, extract, conv, pipe, da,
                signed, ingress>>

-----------------------------------------------------------------------------
(* Calls of EthClient *)

EthUnchanged ==
    UNCHANGED <<now, chainA, chainB, qA, qB, relayer, units, paLog, mvCall, redelivered,
                addrLenB, idCalc, mvt, extract, conv, pipe, da,
                signed, ingress>>

\* A call of get_bridge_transfer_details_initiator.
EthGetInitiator(rpc, storage, eth_details) ==
    LET call == get_bridge_transfer_details_initiator(rpc, storage, eth_details)
    IN  /\ ethCall' = [NoEthCall EXCEPT !.op = "get_initiator", !.rpc = rpc,
                           !.storage = storage,
                           !.eth = IF call.ret = "Err" THEN NoEthDetails ELSE eth_details,
                           !.ret = call.ret, !.error = call.error, !.details = call.details,
                           !.address = call.address]
        /\ EthUnchanged

\* A call of get_bridge_transfer_details_counterparty.
EthGetCounterparty(rpc, storage, eth_details) ==
    LET call == get_bridge_transfer_details_counterparty(rpc, storage, eth_details)
    IN  /\ ethCall' = [NoEthCall EXCEPT !.op = "get_counterparty", !.rpc = rpc,
                           !.storage = storage,
                           !.eth = IF call.ret = "Err" THEN NoEthDetails ELSE eth_details,
                           !.ret = call.ret, !.error = call.error, !.details = call.details,
                           !.address = call.address]
        /\ EthUnchanged

\* The tail of both reads, Ok(Some(BridgeTransferDetails { .. })), for a decoded struct.
EthDetailsRead(eth_details) ==
    /\ ethCall' = [NoEthCall EXCEPT !.op = "details", !.eth = eth_details,
                       !.ret = "Ok(Some)", !.details = BridgeTransferDetails(eth_details)]
    /\ EthUnchanged

\* initiate_bridge_transfer: the amount goes to the contract as U256::from(amount.0).
EthInitiate(amount, transport) ==
    /\ ethCall' = [NoEthCall EXCEPT !.op = "initiate", !.rpc = transport, !.v = amount,
                       !.wide = U256_from(amount),
                       !.ret = map_err(IF transport = "up" THEN "Ok" ELSE "Err",
                                       "GenericError")]
    /\ EthUnchanged

\* fuzz_test_wrapping_to_on_eth_details: a u64 widened into both U256 fields of the
\* struct and narrowed back.
TestWrappingTo(v) ==
    LET eth_details == EthBridgeTransferDetails(U256_from(v), U256_from(v), 1)
    IN  /\ ethCall' = [NoEthCall EXCEPT !.op = "wrapping_to", !.v = v, !.eth = eth_details,
                           !.wide = eth_details.time_lock,
                           !.details = BridgeTransferDetails(eth_details)]
        /\ EthUnchanged

-----------------------------------------------------------------------------
(* Transfer id derivations *)

IdUnchanged ==
    UNCHANGED <<now, chainA, chainB, qA, qB, relayer, units, paLog, mvCall, redelivered,
                addrLenB, ethCall, mvt, extract, conv, pipe, da,
                signed, ingress>>

\* Two integers are serialized and normalized for hashing.
Normalize(a, b) ==
    /\ idCalc' = [NoIdCalc EXCEPT !.op = "normalize", !.a = a, !.b = b,
                      !.ea = normalize_to_32_bytes(bcs_to_bytes(a)),
                      !.eb = normalize_to_32_bytes(bcs_to_bytes(b))]
    /\ IdUnchanged

\* The id of a transfer is computed for one chain.
DeriveId(chain, initiator_bytes, recipient_bytes, amount, nonce) ==
    /\ idCalc' = [NoIdCalc EXCEPT !.op = "derive", !.initiator = initiator_bytes,
                      !.recipient = recipient_bytes, !.amount = amount, !.nonce = nonce,
                      !.chain = chain, !.at = now,
                      !.id = bridge_transfer_id(initiator_bytes, recipient_bytes,
                                                amount, nonce)]
    /\ IdUnchanged

\* The id is computed again from the same four inputs, later and for either chain.
DeriveAgain(chain) ==
    /\ idCalc.op = "derive"
    /\ idCalc' = [idCalc EXCEPT !.op = "derived_twice", !.chain2 = chain, !.at2 = now,
                      !.id2 = bridge_transfer_id(idCalc.initiator, idCalc.recipient,
                                                 idCalc.amount, idCalc.nonce)]
    /\ IdUnchanged

-----------------------------------------------------------------------------
(* Calls on the account chain and its monitor *)

MvtUnchanged ==
    UNCHANGED <<now, chainA, chainB, qA, qB, relayer, units, paLog, mvCall, redelivered,
                addrLenB, ethCall, idCalc, extract, conv, pipe, da,
                signed, ingress>>

\* BridgeClientContract::initiate_bridge_transfer(client, recipient, amount), signed
\* by the client's account.
MvtInitiate(signer, recipient, amount, transport) ==
    /\ Len(mvt.calls) < MaxMvtCalls
    /\ mvt' = IF transport = "down" THEN [mvt EXCEPT !.ret = "Err"]
              ELSE [mvt_initiate_bridge_transfer(mvt, signer, recipient, amount)
                        EXCEPT !.ret = "Ok",
                               !.calls = Append(@, MvtCall("initiate", signer,
                                                            keccak256(<<>>), signer,
                                                            recipient, amount, Nonce(0)))]
    /\ MvtUnchanged

\* BridgeRelayerContract::complete_bridge_transfer(client, id, initiator, recipient,
\* amount, nonce), signed by the relayer.
MvtComplete(signer, id, initiator, recipient, amount, nonce, transport) ==
    /\ Len(mvt.calls) < MaxMvtCalls
    /\ mvt' = IF \/ transport = "down"
                 \/ ~mvt_complete_accepted(mvt, id, initiator, recipient, amount, nonce)
              THEN [mvt EXCEPT !.ret = "Err"]
              ELSE [mvt_complete_bridge_transfer(mvt, id, initiator, recipient, amount,
                                                 nonce)
                        EXCEPT !.ret = "Ok",
                               !.calls = Append(@, MvtCall("complete", signer, id,
                                                            initiator, recipient, amount,
                                                            nonce))]
    /\ MvtUnchanged

\* mvt_monitoring.next(): the monitor delivers the oldest event it has not delivered.
MvtMonitorNext ==
    /\ Len(mvt.delivered) < Len(mvt.emitted)
    /\ mvt' = [mvt EXCEPT !.delivered = Append(@, mvt.emitted[Len(mvt.delivered) + 1]),
                          !.ret = "-"]
    /\ MvtUnchanged

-----------------------------------------------------------------------------
(* Calls of the event extraction *)

ExtractUnchanged ==
    UNCHANGED <<now, chainA, chainB, qA, qB, relayer, units, paLog, mvCall, redelivered,
                addrLenB, ethCall, idCalc, mvt, conv, pipe, da,
                signed, ingress>>

\* A call of extract_bridge_transfer_details.
ExtractDetails(rpc, transactions) ==
    /\ extract' = [op |-> "details", rpc |-> rpc, transactions |-> transactions,
                   result |-> extract_bridge_transfer_details(rpc, transactions)]
    /\ ExtractUnchanged

\* A call of extract_bridge_transfer_id.
ExtractId(rpc, transactions) ==
    /\ extract' = [op |-> "id", rpc |-> rpc, transactions |-> transactions,
                   result |-> extract_bridge_transfer_id(rpc, transactions)]
    /\ ExtractUnchanged

-----------------------------------------------------------------------------
(* Conversions to EthAddress *)

ConvUnchanged ==
    UNCHANGED <<now, chainA, chainB, qA, qB, relayer, units, paLog, mvCall, redelivered,
                addrLenB, ethCall, idCalc, mvt, extract, pipe, da,
                signed, ingress>>

\* EthAddress::from(vec)
ConvFromVec(vec) ==
    /\ conv' = [NoConv EXCEPT !.op = "from_vec", !.a = vec, !.ra = EthAddress_from_vec(vec)]
    /\ ConvUnchanged

\* EthAddress::from(a) and EthAddress::from(b) for two [u8; 32].
ConvFromArray(a, b) ==
    /\ conv' = [op |-> "from_array", a |-> a, b |-> b, ra |-> EthAddress_from_array(a),
                rb |-> EthAddress_from_array(b)]
    /\ ConvUnchanged

-----------------------------------------------------------------------------
(* The transaction pipe, its clients and its surroundings *)

PipeUnchanged ==
    UNCHANGED <<now, chainA, chainB, qA, qB, relayer, units, paLog, mvCall, redelivered,
                addrLenB, ethCall, idCalc, mvt, extract, conv, da,
                signed, ingress>>

\* mempool_client_sender.send(MempoolClientRequest::..): a client hands in a request.
PipeSend(kind, transaction) ==
    /\ ~pipe.input_closed
    /\ pipe.sent < MaxRequests
    /\ Len(pipe.pending) < MaxPending
    /\ pipe' = [pipe EXCEPT !.pending = Append(@, Request(kind, transaction, "open")),
                            !.sent = @ + 1]
    /\ PipeUnchanged

\* drop(callback): the submitter gives up before the pipe answers.
PipeDropCallback ==
    /\ pipe.pending # <<>>
    /\ pipe.pending[1].callback = "open"
    /\ pipe' = [pipe EXCEPT !.pending[1].callback = "dropped"]
    /\ PipeUnchanged

\* tick on a SubmitTransaction request, then the garbage collection when it is due:
\* expired are the senders whose pool entry has outlived its time to live.
TickSubmit(db, vm, room, expired) ==
    LET req == pipe.pending[1]
        transaction == req.transaction
        submitted == submit_transaction(pipe, transaction, db, vm, room)
        sent == IF submitted.result = "Err" THEN [tick |-> "Err", answer |-> "-"]
                ELSE callback_send(req.callback, submitted)
        forwarded == submitted.forwarded
        used == IF forwarded
                THEN [pipe.used EXCEPT ![transaction.sender] =
                                           <<pipe.committed[transaction.sender]>>]
                ELSE pipe.used
    IN  /\ pipe.pending # <<>>
        /\ ~pipe.halted
        /\ req.kind = "SubmitTransaction"
        /\ forwarded => transaction.sender \notin expired
        /\ pipe' = [pipe EXCEPT
                        !.pending = Tail(@),
                        !.halted = sent.tick = "Err",
                        !.output = IF forwarded THEN send(@, transaction) ELSE @,
                        !.in_flight = IF forwarded THEN @ + 1 ELSE @,
                        !.used = IF sent.tick = "Err" THEN used
                                 ELSE [a \in Senders |->
                                          IF a \in expired THEN <<>> ELSE used[a]],
                        !.last = [req EXCEPT
                                     !.tick = sent.tick,
                                     !.code = submitted.code,
                                     !.vm_status = submitted.vm_status,
                                     !.answer = sent.answer,
                                     !.before = Forwarded(pipe.output, transaction),
                                     !.forwarded = IF forwarded THEN 1 ELSE 0,
                                     !.output = Len(pipe.output),
                                     !.used = pipe.used[transaction.sender],
                                     !.committed = pipe.committed[transaction.sender],
                                     !.in_flight = pipe.in_flight,
                                     !.rx_closed = pipe.rx_closed,
                                     !.db = IF pipe.in_flight > pipe.in_flight_limit
                                            THEN "-" ELSE db,
                                     !.used_after = used[transaction.sender]]]
        /\ PipeUnchanged

\* tick on a GetTransactionByHash request: the mempool's answer goes to the sender.
TickGet(found, expired) ==
    LET req == pipe.pending[1]
    IN  /\ pipe.pending # <<>>
        /\ ~pipe.halted
        /\ req.kind = "GetTransactionByHash"
        /\ pipe' = [pipe EXCEPT
                        !.pending = Tail(@),
                        !.used = [a \in Senders |->
                                     IF a \in expired THEN <<>> ELSE pipe.used[a]],
                        !.last = [req EXCEPT
                                     !.tick = "Ok",
                                     !.answer = IF req.callback = "dropped" THEN "-"
                                                ELSE found,
                                     !.output = Len(pipe.output)]]
        /\ PipeUnchanged

\* The executor commits a transaction of the sender: its sequence number on the ledger
\* goes up by one.
PipeLedgerCommit(sender) ==
    /\ pipe.committed[sender] < MaxCommitted
    /\ pipe' = [pipe EXCEPT !.committed[sender] = @ + 1]
    /\ PipeUnchanged

\* A transaction leaves the mempool for the DA: the holder of the shared counter
\* takes one off.
PipeInFlightDone ==
    /\ pipe.in_flight > 0
    /\ pipe' = [pipe EXCEPT !.in_flight = @ - 1]
    /\ PipeUnchanged

\* The last mempool_client_sender is dropped: the request stream ends after the
\* requests already in it.
PipeCloseInput ==
    /\ ~pipe.input_closed
    /\ pipe' = [pipe EXCEPT !.input_closed = TRUE]
    /\ PipeUnchanged

\* tick when mempool_client_receiver.next() gives None: the `if let Some(request)` is
\* skipped, the garbage collection runs when it is due and tick returns Ok(()), so
\* run calls tick again.
TickNone(expired) ==
    /\ pipe.input_closed
    /\ pipe.pending = <<>>
    /\ ~pipe.halted
    /\ pipe' = [pipe EXCEPT
                    !.used = [a \in Senders |-> IF a \in expired THEN <<>> ELSE pipe.used[a]],
                    !.last = [Request("None", NoTransaction, "-") EXCEPT
                                 !.tick = "Ok", !.output = Len(pipe.output),
                                 !.in_flight = pipe.in_flight]]
    /\ PipeUnchanged

\* The receiving end of the transaction channel is dropped.
PipeCloseReceiver ==
    /\ ~pipe.rx_closed
    /\ pipe' = [pipe EXCEPT !.rx_closed = TRUE]
    /\ PipeUnchanged

-----------------------------------------------------------------------------
(* Celestia and the calls of its verifier *)

DaUnchanged ==
    UNCHANGED <<now, chainA, chainB, qA, qB, relayer, units, paLog, mvCall, redelivered,
                addrLenB, ethCall, idCalc, mvt, extract, conv, pipe,
                signed, ingress>>

\* client.blob_submit(&[blob], ..): the blob is included at the next height, which is
\* returned.
DaBlobSubmit(blob) ==
    /\ da.height < MaxHeight
    /\ da' = [da EXCEPT !.height = @ + 1,
                        !.included = @ \cup {<<blob, da.height + 1>>},
                        !.op = "blob_submit", !.blob = blob, !.at = da.height + 1,
                        !.ret = "Ok", !.verified = <<>>]
    /\ DaUnchanged

\* verifier.verify(blob, height)
DaVerify(blob, height) ==
    LET call == verify(blob, height)
    IN  /\ da' = [da EXCEPT !.op = "verify", !.blob = blob, !.at = height,
                            !.ret = call.ret, !.verified = call.verified]
        /\ DaUnchanged

-----------------------------------------------------------------------------
(* The verifier of known signers and its calls *)

SignedUnchanged ==
    UNCHANGED <<now, chainA, chainB, qA, qB, relayer, units, paLog, mvCall, redelivered,
                addrLenB, ethCall, idCalc, mvt, extract, conv, pipe, da, ingress>>

\* InKnownSignersVerifier::new(known_signers_sec1_bytes_hex)
SignedNew(known_signers_sec1_bytes_hex) ==
    /\ ~signed.built
    /\ signed' = [signed EXCEPT !.built = TRUE,
                                !.known_signers_sec1_bytes_hex = known_signers_sec1_bytes_hex,
                                !.op = "new"]
    /\ SignedUnchanged

\* verifier.verify(blob, height)
SignedVerify(blob, height) ==
    /\ signed.built
    /\ signed' = [signed EXCEPT
                      !.op = "verify", !.blob = blob, !.height = height,
                      !.result = InKnownSignersVerifier_verify(
                                     signed.known_signers_sec1_bytes_hex, blob, height)]
    /\ SignedUnchanged

-----------------------------------------------------------------------------
(* The transaction ingress task and the senders of its channel *)

IngressUnchanged ==
    UNCHANGED <<now, chainA, chainB, qA, qB, relayer, units, paLog, mvCall, redelivered,
                addrLenB, ethCall, idCalc, mvt, extract, conv, pipe, da, signed>>

\* The start of a pass of build_and_write_batch: try_block_building_parameters()?
\* on the configuration the task holds.
IngressPass(t, config) ==
    IF config = "Err"
    THEN [t EXCEPT !.ret = run("Err"), !.error = "try_block_building_parameters"]
    ELSE t

\* Task::run is spawned: the first pass begins.
IngressRun(config) ==
    /\ ~ingress.started
    /\ ingress' = IngressPass([ingress EXCEPT !.started = TRUE, !.config = config], config)
    /\ IngressUnchanged

\* transaction_sender.send(transaction) by the transaction pipe.
IngressSend(transaction) ==
    /\ ~ingress.closed
    /\ ingress.ret = "-"
    /\ ingress.sent < MaxIngress
    /\ ingress' = [ingress EXCEPT !.channel = Append(@, transaction), !.sent = @ + 1]
    /\ IngressUnchanged

\* The last sender of the channel is dropped.
IngressCloseChannel ==
    /\ ~ingress.closed
    /\ ingress' = [ingress EXCEPT !.closed = TRUE]
    /\ IngressUnchanged

\* recv() gives Some(transaction): it is serialized and pushed on the batch; a
\* failure of serde_json::to_vec leaves run through the question mark.
IngressRecv(serialized) ==
    /\ ingress.started
    /\ ingress.ret = "-"
    /\ ingress.channel # <<>>
    /\ ingress' =
           IF serialized = "Err"
           THEN [ingress EXCEPT !.channel = Tail(@), !.ret = run("Err"),
                                !.error = "serde_json::to_vec"]
           ELSE [ingress EXCEPT !.channel = Tail(@),
                                !.transactions = Append(@, Head(ingress.channel))]
    /\ IngressUnchanged

\* recv() gives None: the stream is closed and empty, the pass returns Break.
IngressRecvNone ==
    /\ ingress.started
    /\ ingress.ret = "-"
    /\ ingress.channel = <<>>
    /\ ingress.closed
    /\ ingress' = [ingress EXCEPT !.ret = run(Break)]
    /\ IngressUnchanged

\* The half building time is over or recv() timed out: a batch that is not empty is
\* written in the background, the pass returns Continue and the next one begins.
IngressBatchEnd ==
    /\ ingress.started
    /\ ingress.ret = "-"
    /\ ingress' = IngressPass(
                      [ingress EXCEPT
                           !.transactions = <<>>,
                           !.written = IF ingress.transactions # <<>>
                                       THEN Append(@, ingress.transactions) ELSE @],
                      ingress.config)
    /\ IngressUnchanged

-----------------------------------------------------------------------------
(* Specification *)

Next ==
    \/ Tick
    \/ \E id \in Ids, recipient \in Recipients, secret \in Preimages :
           Initiate(id, recipient, secret)
    \/ \E id \in Ids, preimage \in Preimages : RevealOnOrigin(id, preimage)
    \/ \E id \in Ids : RefundOnOrigin(id)
    \/ \E id \in Ids : AbortOnDestination(id)
    \/ \E id \in Ids : MonitorRedeliver(id)
    \/ RelayerConsumeA
    \/ RelayerConsumeB
    \/ \E id \in Ids : RelayerPoll(id)
    \/ \E i \in DOMAIN units, e \in FundResults : UnitFund(i, e)
    \/ \E i \in DOMAIN units, transport \in Transports : UnitLock(i, transport)
    \/ \E i \in DOMAIN units : UnitStart(i)
    \/ \E i \in DOMAIN units, transport \in Transports : UnitComplete(i, transport)

Spec == Init /\ [][Next]_vars

\* The destination chain driven through MovementClient alone.
NextMovement ==
    \/ Tick
    \/ \E id \in Ids, secret \in Preimages, recipient \in Recipients,
          transport \in Transports : MovementLock(id, secret, recipient, transport)
    \/ \E id \in Ids, preimage \in Preimages, transport \in Transports :
           MovementComplete(id, preimage, transport)
    \/ \E id \in Ids, transport \in Transports : MovementAbort(id, transport)

SpecMovement == Init /\ [][NextMovement]_vars

\* The EVM adapter on its own: one call from the initial state.
NextEth ==
    \/ /\ ethCall = NoEthCall
       /\ \E rpc \in Transports, storage \in EthStorages, eth_details \in EthDetailsSamples :
              EthGetInitiator(rpc, storage, eth_details)
    \/ /\ ethCall = NoEthCall
       /\ \E rpc \in Transports, storage \in EthStorages, eth_details \in EthDetailsSamples :
              EthGetCounterparty(rpc, storage, eth_details)
    \/ /\ ethCall = NoEthCall
       /\ \E eth_details \in EthDetailsSamples : EthDetailsRead(eth_details)
    \/ /\ ethCall = NoEthCall
       /\ \E amount \in U64Few, transport \in Transports : EthInitiate(amount, transport)
    \/ /\ ethCall = NoEthCall
       /\ \E v \in U64Samples : TestWrappingTo(v)

SpecEth == Init /\ [][NextEth]_vars

\* The transfer id derivation on its own.
NextId ==
    \/ Tick
    \/ /\ idCalc = NoIdCalc
       /\ \E a \in U64Few, b \in U64Few : Normalize(a, b)
    \/ /\ idCalc = NoIdCalc
       /\ \E chain \in {ChainA, ChainB}, initiator_bytes \in InitiatorBytes,
             recipient_bytes \in RecipientBytes, amount \in AmountSamples,
             nonce \in NonceSamples :
              DeriveId(chain, initiator_bytes, recipient_bytes, amount, nonce)
    \/ \E chain \in {ChainA, ChainB} : DeriveAgain(chain)

SpecId == Init /\ [][NextId]_vars

\* The protocol with units of work abandoned and the process restarted; the restart
\* is the one way events are delivered again.
NextCancel ==
    \/ Tick
    \/ \E id \in Ids, recipient \in Recipients, secret \in Preimages :
           Initiate(id, recipient, secret)
    \/ \E id \in Ids, preimage \in Preimages : RevealOnOrigin(id, preimage)
    \/ \E id \in Ids : RefundOnOrigin(id)
    \/ \E id \in Ids : AbortOnDestination(id)
    \/ RelayerConsumeA
    \/ RelayerConsumeB
    \/ \E id \in Ids : RelayerPoll(id)
    \/ \E i \in DOMAIN units, e \in FundResults : UnitFund(i, e)
    \/ \E i \in DOMAIN units, transport \in Transports : UnitLock(i, transport)
    \/ \E i \in DOMAIN units : UnitStart(i)
    \/ \E i \in DOMAIN units, transport \in Transports : UnitComplete(i, transport)
    \/ \E i \in DOMAIN units : UnitAbandon(i)
    \/ \E i \in DOMAIN units : UnitAbandonInLock(i)
    \/ \E i \in DOMAIN units : UnitAbandonInComplete(i)
    \/ Restart

SpecCancel == Init /\ [][NextCancel]_vars

\* Scenario A: one direction of relaying with every call succeeding: the node is
\* reachable, the faucet funds, the recipient bytes have the length of the
\* destination's address type, and nobody refunds or aborts.
NextScenarioA ==
    \/ Tick
    \/ \E id \in Ids, recipient \in Recipients, secret \in Preimages :
           recipient.len = addrLenB /\ Initiate(id, recipient, secret)
    \/ \E id \in Ids, preimage \in Preimages : RevealOnOrigin(id, preimage)
    \/ RelayerConsumeA
    \/ RelayerConsumeB
    \/ \E id \in Ids : RelayerPoll(id)
    \/ \E i \in DOMAIN units : UnitFund(i, "Ok")
    \/ \E i \in DOMAIN units : UnitLock(i, "up")
    \/ \E i \in DOMAIN units : UnitStart(i)
    \/ \E i \in DOMAIN units : UnitComplete(i, "up")

\* The runtime keeps polling the two relaying loops and every spawned unit.
FairScenarioA ==
    /\ WF_vars(RelayerConsumeA)
    /\ WF_vars(RelayerConsumeB)
    /\ WF_vars(\E i \in DOMAIN units : UnitFund(i, "Ok"))
    /\ WF_vars(\E i \in DOMAIN units : UnitLock(i, "up"))
    /\ WF_vars(\E i \in DOMAIN units : UnitStart(i))
    /\ WF_vars(\E i \in DOMAIN units : UnitComplete(i, "up"))

SpecScenarioA == Init /\ [][NextScenarioA]_vars /\ FairScenarioA

\* The account chain's bridge module, its callers and its monitor on their own.
NextMvt ==
    \/ \E signer \in MvtSigners, recipient \in InitiatorBytes, amount \in MvtAmounts,
          transport \in Transports :
           MvtInitiate(signer, recipient, amount, transport)
    \/ \E initiator \in InitiatorBytes, amount \in MvtAmounts, nonce \in IncomingNonces,
          transport \in Transports :
           \E id \in {bridge_transfer_id(initiator, MvtRecipient, amount, nonce),
                      bridge_transfer_id(initiator, MvtRecipient, amount, Nonce(0))} :
               MvtComplete(MvtRelayer, id, initiator, MvtRecipient, amount, nonce,
                           transport)
    \/ MvtMonitorNext

SpecMvt == Init /\ [][NextMvt]_vars

\* The event extraction on its own: one call from the initial state.
NextExtract ==
    \/ /\ extract = NoExtract
       /\ \E rpc \in Transports, transactions \in TransactionLists :
              ExtractDetails(rpc, transactions)
    \/ /\ extract = NoExtract
       /\ \E rpc \in Transports, transactions \in TransactionLists :
              ExtractId(rpc, transactions)

SpecExtract == Init /\ [][NextExtract]_vars

\* The conversions to EthAddress on their own: one call from the initial state.
NextConv ==
    \/ /\ conv = NoConv
       /\ \E vec \in VecSamples : ConvFromVec(vec)
    \/ /\ conv = NoConv
       /\ \E a \in ArraySamples, b \in ArraySamples : ConvFromArray(a, b)

SpecConv == Init /\ [][NextConv]_vars

\* The transaction pipe with its clients, the ledger and the receiver of its output.
NextPipe ==
    \/ \E transaction \in Transactions : PipeSend("SubmitTransaction", transaction)
    \/ PipeSend("GetTransactionByHash", SignedTransaction("root", 1))
    \/ PipeDropCallback
    \/ \E db \in Transports, vm \in VmStatuses, room \in BOOLEAN, expired \in SUBSET Senders :
           TickSubmit(db, vm, room, expired)
    \/ \E found \in {"Some", "None"}, expired \in SUBSET Senders : TickGet(found, expired)
    \/ \E sender \in Senders : PipeLedgerCommit(sender)
    \/ PipeInFlightDone
    \/ PipeCloseReceiver

SpecPipe == Init /\ [][NextPipe]_vars

\* Celestia and the verifier on their own.
NextDa ==
    \/ \E blob \in Blobs : DaBlobSubmit(blob)
    \/ \E blob \in Blobs, height \in 1 .. MaxHeight + 1 : DaVerify(blob, height)

SpecDa == Init /\ [][NextDa]_vars

\* The verifier of known signers on its own.
NextSigned ==
    \/ \E known \in KnownSignerSamples : SignedNew(known)
    \/ \E blob \in SignedBlobs, height \in 1 .. MaxHeight : SignedVerify(blob, height)

SpecSigned == Init /\ [][NextSigned]_vars

\* The ingress task, the senders of its channel and the clock of its batches.
NextIngress ==
    \/ \E config \in {"Ok", "Err"} : IngressRun(config)
    \/ \E transaction \in IngressTransactions : IngressSend(transaction)
    \/ IngressCloseChannel
    \/ \E serialized \in {"Ok", "Err"} : IngressRecv(serialized)
    \/ IngressRecvNone
    \/ IngressBatchEnd

\* The runtime keeps polling the task: a receive that is ready is taken.
SpecIngress ==
    /\ Init
    /\ [][NextIngress]_vars
    /\ WF_vars(\E serialized \in {"Ok", "Err"} : IngressRecv(serialized))
    /\ WF_vars(IngressRecvNone)

\* process_action on the lock actions a caller can hand it, one unit at a time, with
\* the steps of the lock future.
NextLock ==
    \/ /\ \A i \in DOMAIN units : units[i].pc = "done"
       /\ \E action \in LockActions : ProcessAction(action)
    \/ \E i \in DOMAIN units, e \in FundResults : UnitFund(i, e)
    \/ \E i \in DOMAIN units, transport \in Transports : UnitLock(i, transport)

SpecLock == Init /\ [][NextLock]_vars

\* The transaction pipe whose clients go away: the requests sent are ticked on, the
\* senders are dropped, and run goes on calling tick.
NextPipeRun ==
    \/ \E transaction \in Transactions : PipeSend("SubmitTransaction", transaction)
    \/ \E db \in Transports, vm \in VmStatuses, room \in BOOLEAN, expired \in SUBSET Senders :
           TickSubmit(db, vm, room, expired)
    \/ PipeCloseInput
    \/ \E expired \in SUBSET Senders : TickNone(expired)

SpecPipeRun == Init /\ [][NextPipeRun]_vars

-----------------------------------------------------------------------------
(* Properties *)

LockUnitsFor(id) ==
    {i \in DOMAIN units : IsLock(units[i]) /\ units[i].action.bridge_transfer_id = id}

Calls(u) == u.lock_calls + u.complete_calls

\* C1: no refund is derived by the relayer, handed to process_action or executed on
\* the origin chain before the time lock recorded for the transfer has elapsed.
C1_NoRefundBeforeExpiry ==
    /\ \A id \in Ids :
        /\ relayer[id].last = "RefundInitiator" => now >= chainA[id].time_lock
        /\ chainA[id].state = "Refunded" => now >= chainA[id].time_lock
    /\ paLog.kind = "RefundInitiator" => now >= chainA[paLog.transfer_id].time_lock
    /\ \A i \in DOMAIN units : units[i].action.kind # "RefundInitiator"

C1_Witness ==
    \E id \in Ids :
        /\ relayer[id].last = "RefundInitiator"
        /\ paLog.kind = "RefundInitiator"
        /\ chainA[id].state = "Refunded"

\* C2: a complete call whose preimage does not hash to the recorded hash lock
\* returns an error to its caller and leaves the record and the funds as they were.
C2_WrongPreimageFails ==
    (/\ mvCall.op = "complete"
     /\ mvCall.before.state = "Locked"
     /\ HashOf(mvCall.preimage) # mvCall.before.hash_lock)
    => (mvCall.ret # "Ok" /\ mvCall.after = mvCall.before)

\* C3: of the lock units run for one transfer id at most one succeeds, and a lock
\* call for an id that already has a lock record fails and leaves chain B unchanged.
C3_NoDoubleLock ==
    /\ [](\A id \in Ids :
            Cardinality({i \in LockUnitsFor(id) : units[i].result.tag = "Ok"}) <= 1)
    /\ [][\A i \in DOMAIN units :
            (/\ IsLock(units[i])
             /\ units'[i].lock_calls = units[i].lock_calls + 1
             /\ chainB[units[i].action.bridge_transfer_id].state # "None")
            => (units'[i].result.tag = "Err" /\ chainB' = chainB /\ qB' = qB)]_vars

C3_Witness ==
    \E i, j \in DOMAIN units :
        /\ IsLock(units[i]) /\ IsLock(units[j])
        /\ units[i].action.bridge_transfer_id = units[j].action.bridge_transfer_id
        /\ units[i].result.tag = "Ok"
        /\ units[j].lock_calls = 1
        /\ units[j].raw = "LockTransferAssetsError"
        /\ units[j].result.tag = "Err"

\* C4 as claimed: once a terminal event has been observed for an id, every action
\* derived for it is TransferDone and no lock or complete call is issued for it.
C4_NoCallAfterDone ==
    [][\A id \in Ids : relayer[id].done =>
          /\ relayer'[id].last \in {relayer[id].last, "TransferDone"}
          /\ \A i \in DOMAIN units : units[i].action.transfer_id = id =>
                 Calls(units'[i]) = Calls(units[i])]_vars

\* C4 as amended: once a terminal event has been observed for an id, the id stays
\* done, every action derived for it is TransferDone and no new unit of work is
\* created for it; units created earlier may still issue their call.
C4_NoNewWorkAfterDone ==
    [][\A id \in Ids : relayer[id].done =>
          /\ relayer'[id].done
          /\ relayer'[id].last \in {relayer[id].last, "TransferDone"}
          /\ (paLog' # paLog /\ paLog'.transfer_id = id) => paLog'.kind = "TransferDone"
          /\ Len(units') > Len(units) => units'[Len(units')].action.transfer_id # id]_vars

C4_Witness ==
    \E id \in Ids :
        /\ relayer[id].done
        /\ relayer[id].last = "TransferDone"
        /\ paLog = [kind |-> "TransferDone", transfer_id |-> id, some |-> FALSE]
        /\ \E i \in DOMAIN units :
               /\ units[i].action.transfer_id = id
               /\ IsComplete(units[i])
               /\ units[i].complete_calls = 1

C6_ProcessActionKinds ==
    /\ paLog.kind \in {"RefundInitiator", "TransferDone", "NoAction"} => ~paLog.some
    /\ paLog.kind \in {"LockBridgeTransfer", "WaitAndCompleteInitiator"} => paLog.some
    /\ \A i \in DOMAIN units :
           units[i].action.kind \in {"LockBridgeTransfer", "WaitAndCompleteInitiator"}

C6_Witness ==
    /\ paLog.kind = "RefundInitiator"
    /\ ~paLog.some
    /\ \E i \in DOMAIN units : IsLock(units[i]) /\ units[i].lock_calls = 1

\* C7: a lock unit with a 32-byte recipient funds it before it locks; when funding
\* fails the lock is never called and the unit ends with that funding error wrapped
\* in ActionExecError; with any other recipient length no funding call is made.
C7_FundBeforeLock ==
    \A i \in DOMAIN units : IsLock(units[i]) =>
        LET u == units[i] IN
        /\ u.action.recipient.len = 32 =>
               /\ u.fund_calls <= 1
               /\ u.lock_calls > 0 => u.fund_calls = 1
               /\ (u.fund_calls = 1 /\ u.raw = "FundingError") =>
                      /\ u.pc = "done"
                      /\ u.lock_calls = 0
                      /\ u.result = ActionExecError(u.action, "FundingError")
        /\ u.action.recipient.len # 32 => u.fund_calls = 0

C7_Witness ==
    \E i, j \in DOMAIN units :
        /\ IsLock(units[i]) /\ IsLock(units[j])
        /\ units[i].fund_calls = 1 /\ units[i].raw = "FundingError" /\ units[i].pc = "done"
        /\ units[j].fund_calls = 1 /\ units[j].lock_calls = 1

\* C8: the complete call of a WaitAndCompleteInitiator unit is not issued before
\* wait_seconds have elapsed since the unit started.
C8_CompleteDeferred ==
    \A i \in DOMAIN units :
        (IsComplete(units[i]) /\ units[i].complete_calls > 0)
        => units[i].called_at >= units[i].started + units[i].action.wait

\* C9: every error result of a unit carries the action given to process_action and
\* the error the failing step returned.
C9_ErrorCarriesActionAndCause ==
    \A i \in DOMAIN units :
        units[i].result.tag = "Err" =>
            /\ units[i].result.action = units[i].action
            /\ units[i].result.error = units[i].raw
            /\ units[i].raw \notin {"Ok", "-"}

C9_Witness ==
    \E i, j \in DOMAIN units :
        /\ IsComplete(units[i]) /\ units[i].result.tag = "Err" /\ units[i].complete_calls = 1
        /\ IsLock(units[j]) /\ units[j].result.tag = "Err"

\* C10: a unit calls lock_bridge_transfer or initiator_complete_bridge_transfer at
\* most once, is over as soon as that call has returned, and never acts again.
C10_AtMostOneCall ==
    /\ [](\A i \in DOMAIN units :
            /\ Calls(units[i]) <= 1
            /\ Calls(units[i]) = 1 => units[i].pc = "done"
            /\ units[i].result.tag = "Err" => units[i].pc = "done")
    /\ [][\A i \in DOMAIN units : units[i].pc = "done" => units'[i] = units[i]]_vars

C10_Witness ==
    \E i, j \in DOMAIN units :
        /\ IsLock(units[i]) /\ units[i].lock_calls = 1 /\ units[i].result.tag = "Err"
        /\ IsComplete(units[j]) /\ units[j].complete_calls = 1 /\ units[j].result.tag = "Err"

\* The record of chain B mirrors the record of chain A for the id.
MirroredOnB(id) ==
    /\ chainB[id].state \in {"Locked", "Completed"}
    /\ chainB[id].hash_lock = chainA[id].hash_lock
    /\ chainB[id].amount = chainA[id].amount

C12_ScenarioB ==
    /\ [](\A id \in Ids :
            (/\ relayer[id].seen /\ ~relayer[id].done /\ ~relayer[id].preimage
             /\ chainA[id].state = "Initiated" /\ now >= chainA[id].time_lock)
            => derive_on_poll(id, relayer[id], chainA[id], now).kind = "RefundInitiator")
    /\ [](\A id \in Ids :
            chainA[id].state = "Refunded"
            => (chainB[id].state # "Completed" /\ chainB[id].released = 0))
    /\ [][\A id \in Ids :
            chainA[id].state = "Refunded" => chainA'[id].state = "Refunded"]_vars

C12_Witness ==
    \E id \in Ids :
        /\ chainA[id].state = "Refunded"
        /\ chainB[id].state \in {"Locked", "Aborted"}
        /\ relayer[id].last = "TransferDone"
        /\ qA = <<>> /\ qB = <<>>
        /\ \A i \in DOMAIN units : units[i].pc = "done"

\* C13: whatever the units already spawned are doing, the loop can take the next
\* event of either monitor, and taking it only adds a fresh unit that has made no
\* call yet: it runs no unit, changes no earlier unit and touches neither chain.
C13_LoopNeverBlocked ==
    /\ []((qA # <<>> /\ Len(units) < MaxUnits) => ENABLED RelayerConsumeA)
    /\ []((qB # <<>> /\ Len(units) < MaxUnits) => ENABLED RelayerConsumeB)
    /\ [][Len(units') > Len(units) =>
            /\ Len(units') = Len(units) + 1
            /\ units'[Len(units')].pc = "start"
            /\ Calls(units'[Len(units')]) = 0
            /\ units'[Len(units')].fund_calls = 0
            /\ \A i \in DOMAIN units : units'[i] = units[i]
            /\ chainA' = chainA /\ chainB' = chainB]_vars

C13_Witness ==
    /\ Len(units) = 2
    /\ units[1].pc = "funded" /\ units[1].lock_calls = 0
    /\ units[2].pc = "start"
    /\ paLog.kind = "LockBridgeTransfer" /\ paLog.some
    /\ qA = <<>>

\* What an uninterrupted lock of the action leaves on chain B.
LockOutcome(a) ==
    /\ chainB[a.bridge_transfer_id].state \in {"Locked", "Completed", "Aborted"}
    /\ chainB[a.bridge_transfer_id].hash_lock = a.hash_lock
    /\ chainB[a.bridge_transfer_id].amount = a.amount
    /\ chainB[a.bridge_transfer_id].recipient = a.recipient

C15_NoRecordIsNone ==
    /\ (ethCall.op = "get_initiator" /\ ethCall.rpc = "up"
        /\ ethCall.storage.initiator = Zeros(U256Bytes)) => ethCall.ret = "Ok(None)"
    /\ (ethCall.op = "get_counterparty" /\ ethCall.rpc = "up"
        /\ ethCall.storage.counterparty = Zeros(U256Bytes)) => ethCall.ret = "Ok(None)"

\* C16: lock_bridge_transfer_assets returns LockTransferAssetsError whenever the lock
\* transaction was rejected or could not be sent, and Ok only when the lock was
\* accepted and the record is Locked by this call.
C16_LockErrorReported ==
    mvCall.op = "lock" =>
        /\ mvCall.sent # "Ok" => mvCall.ret = "LockTransferAssetsError"
        /\ mvCall.ret = "Ok" =>
               (mvCall.sent = "Ok" /\ mvCall.before.state = "None"
                /\ mvCall.after.state = "Locked")

C18_WidenNarrowRoundTrip ==
    ethCall.op = "wrapping_to" =>
        /\ fits_u64(ethCall.wide)
        /\ wrapping_to_u64(ethCall.wide) = ethCall.v
        /\ ethCall.details.time_lock = ethCall.v
        /\ ethCall.details.amount = ethCall.v

C18_Witness ==
    /\ ethCall.op = "wrapping_to"
    /\ ethCall.v = Fill(U64Bytes, 255)
    /\ ethCall.details.time_lock = Fill(U64Bytes, 255)
    /\ ethCall.wide = Zeros(U256Bytes - U64Bytes) \o Fill(U64Bytes, 255)

\* C19: the encoding of an amount or a nonce for the transfer id hash is 32 bytes
\* long, and two different values never have the same encoding.
C19_EncodingInjective ==
    idCalc.op = "normalize" =>
        /\ Len(idCalc.ea) = 32 /\ Len(idCalc.eb) = 32
        /\ idCalc.a # idCalc.b => idCalc.ea # idCalc.eb

InitiatesBy(signer, k) ==
    Cardinality({j \in 1 .. k : /\ mvt.calls[j].op = "initiate"
                                /\ mvt.calls[j].signer = signer})

\* C21: every accepted initiate_bridge_transfer call is answered by one Initiated event,
\* delivered by the monitor in the order of the calls, whose initiator is the signer,
\* whose recipient and amount are the arguments of the call and whose nonce counts the
\* signer's transfers from 1, so that no two transfers of one initiator share a nonce;
\* a call that fails emits nothing.
C21_InitiatedMatchesCall ==
    /\ Len(mvt.emitted) = Len(mvt.calls)
    /\ \A k \in 1 .. Len(mvt.delivered) :
           mvt.calls[k].op = "initiate" =>
               LET e == mvt.delivered[k]
                   call == mvt.calls[k]
               IN  /\ e.kind = "Initiated"
                   /\ e.initiator = call.signer
                   /\ e.recipient = call.recipient
                   /\ e.amount = call.amount
                   /\ e.nonce = Nonce(InitiatesBy(call.signer, k))
                   /\ InitiatesBy(call.signer, k) = 1 => e.nonce = Nonce(1)
    /\ \A j, k \in 1 .. Len(mvt.delivered) :
           /\ j # k
           /\ mvt.delivered[j].kind = "Initiated"
           /\ mvt.delivered[k].kind = "Initiated"
           /\ mvt.delivered[j].initiator = mvt.delivered[k].initiator
           => mvt.delivered[j].nonce # mvt.delivered[k].nonce

\* Two transfers of one signer were initiated and the monitor has delivered both events.
C21_Witness ==
    /\ Len(mvt.delivered) >= 2
    /\ \E j, k \in 1 .. Len(mvt.delivered) :
           /\ j < k
           /\ mvt.calls[j].op = "initiate"
           /\ mvt.calls[k].op = "initiate"
           /\ mvt.calls[j].signer = mvt.calls[k].signer
           /\ mvt.calls[j].recipient = mvt.calls[k].recipient
           /\ mvt.calls[j].amount = mvt.calls[k].amount
           /\ mvt.delivered[j].nonce = Nonce(1)

\* C22: every accepted complete_bridge_transfer call has an id that is the hash of its
\* initiator, recipient, amount and nonce, and is answered by one Completed event for
\* that id, delivered by the monitor, carrying the recipient, amount and nonce of the
\* call.
C22_CompletedMatchesCall ==
    /\ Len(mvt.emitted) = Len(mvt.calls)
    /\ \A k \in 1 .. Len(mvt.calls) :
           mvt.calls[k].op = "complete" =>
               LET call == mvt.calls[k]
                   e == mvt.emitted[k]
               IN  /\ call.bridge_transfer_id =
                          bridge_transfer_id(call.initiator, call.recipient, call.amount,
                                             call.nonce)
                   /\ e.kind = "Completed"
                   /\ e.bridge_transfer_id = call.bridge_transfer_id
                   /\ e.recipient = call.recipient
                   /\ e.amount = call.amount
                   /\ e.nonce = call.nonce
                   /\ k <= Len(mvt.delivered) => mvt.delivered[k] = e

\* A complete call with the second nonce was accepted and the monitor has delivered its
\* event.
C22_Witness ==
    \E k \in 1 .. Len(mvt.delivered) :
        /\ mvt.calls[k].op = "complete"
        /\ mvt.calls[k].nonce = Nonce(2)
        /\ mvt.delivered[k].kind = "Completed"

\* The events the latest extraction looped over: those of the last transaction.
ExtractEvents ==
    IF extract.transactions # <<>> /\ extract.transactions[Len(extract.transactions)].user
    THEN extract.transactions[Len(extract.transactions)].events
    ELSE <<>>

IsBridgeEvent(e) == e.typ = "Struct" /\ e.name \in BridgeEventNames

\* The fields that go into what the extraction returns.
RequiredFields == IF extract.op = "id" THEN {"bridge_transfer_id"} ELSE EventFields

\* A field that is missing or cannot be decoded.
BadField(e, f) ==
    LET v == e.data[f]
    IN  IF f \in {"amount", "time_lock"} THEN v.json # "number"
        ELSE \/ v.json # "string"
             \/ ~v.hex
             \/ f \in {"bridge_transfer_id", "hash_lock"} /\ Len(v.bytes) # 32

Malformed(e) == IsBridgeEvent(e) /\ \E f \in RequiredFields : BadField(e, f)

\* C23: when a bridge event of a matching type lacks a required field or has a field
\* that cannot be decoded, the extraction returns an error: no result is ever built
\* from an event behind a malformed bridge event.
C23_MalformedIsError ==
    \A i \in 1 .. Len(ExtractEvents) :
        /\ Malformed(ExtractEvents[i])
        /\ \A j \in 1 .. i - 1 : ~IsBridgeEvent(ExtractEvents[j])
        => /\ extract.result.ret = "Err"
           /\ extract.result.used \in {0, i}

\* extract_bridge_transfer_details alone returns an error for a malformed bridge event.
C23_DetailsMalformedIsError ==
    extract.op = "details" => C23_MalformedIsError

\* extract_bridge_transfer_details met a bridge event without its hash_lock.
C23_Witness ==
    /\ extract.op = "details"
    /\ Len(ExtractEvents) = 2
    /\ Malformed(ExtractEvents[1])
    /\ ExtractEvents[1].data["hash_lock"].json = "absent"
    /\ ~Malformed(ExtractEvents[2]) /\ IsBridgeEvent(ExtractEvents[2])
    /\ extract.result.ret = "Err"

\* C24: a conversion of bytes that are not exactly 20 bytes long to an EthAddress
\* returns an error value: it does not panic, and it gives no address, so that two
\* different 32-byte addresses never become the same EthAddress.
C24_ConversionFallible ==
    /\ conv.op = "from_vec" /\ Len(conv.a) # EthAddressLen => conv.ra.ret = "Err"
    /\ conv.op = "from_array" =>
           /\ conv.ra.ret = "Err"
           /\ conv.rb.ret = "Err"
           /\ conv.a # conv.b
              => ~(/\ conv.ra.ret = "EthAddress"
                   /\ conv.rb.ret = "EthAddress"
                   /\ conv.ra.address = conv.rb.address)

\* Two different 32-byte addresses are never converted to the same EthAddress.
C24_NoCollision ==
    conv.op = "from_array" /\ conv.a # conv.b
    => ~(/\ conv.ra.ret = "EthAddress"
         /\ conv.rb.ret = "EthAddress"
         /\ conv.ra.address = conv.rb.address)

\* No conversion panics.
C24_NoPanic == conv.ra.ret # "panic" /\ conv.rb.ret # "panic"

\* The latest tick was on a SubmitTransaction request.
Ticked == pipe.last.kind = "SubmitTransaction" /\ pipe.last.tick # "-"

\* m of the latest submission: the larger of the sender's entry in the pool of used
\* sequence numbers, if it has one, and its committed sequence number.
MinSequenceNumber ==
    IF pipe.last.used # <<>> THEN Max(pipe.last.used[1], pipe.last.committed)
    ELSE pipe.last.committed

InWindow ==
    /\ MinSequenceNumber <= pipe.last.transaction.sequence_number
    /\ pipe.last.transaction.sequence_number <= MinSequenceNumber + TOO_NEW_TOLERANCE

\* C25: a transaction is accepted only if its sequence number s satisfies
\* m <= s <= m + 32; outside of that window it is not forwarded, and when the pipe
\* gets as far as the sequence number it answers InvalidSeqNumber, too old below m and
\* too new above m + 32.
C25_SequenceWindow ==
    Ticked =>
        /\ pipe.last.code = "Accepted" => InWindow
        /\ pipe.last.forwarded = 1 => InWindow
        /\ pipe.last.code = "InvalidSeqNumber" =>
               /\ ~InWindow
               /\ pipe.last.forwarded = 0
               /\ pipe.last.vm_status =
                      IF pipe.last.transaction.sequence_number < MinSequenceNumber
                      THEN "SEQUENCE_NUMBER_TOO_OLD" ELSE "SEQUENCE_NUMBER_TOO_NEW"

\* The window holds for every sender that has an entry in the pool.
C25_WindowWithEntry ==
    Ticked /\ pipe.last.used # <<>> => C25_SequenceWindow

\* A sender with an entry in the pool was turned down as too new.
C25_Witness ==
    /\ Ticked
    /\ pipe.last.used # <<>>
    /\ pipe.last.code = "InvalidSeqNumber"
    /\ pipe.last.vm_status = "SEQUENCE_NUMBER_TOO_NEW"

\* C26: the shared counter of transactions in flight is at most in_flight_limit in
\* every state of the pipe.
C26_InFlightWithinLimit == pipe.in_flight <= pipe.in_flight_limit

\* The counter passes the limit by one and no further.
C26_InFlightWithinLimitPlusOne == pipe.in_flight <= pipe.in_flight_limit + 1

Resubmitted == Ticked /\ pipe.last.before >= 1

\* C28 as claimed: a tick on a transaction that was accepted and forwarded before
\* returns Ok, its callback receives a status, and the transaction is forwarded again.
C28_DuplicateForwardedAgain ==
    Resubmitted =>
        /\ pipe.last.tick = "Ok"
        /\ pipe.last.callback = "open" => pipe.last.answer # "-"
        /\ pipe.last.forwarded = 1

\* C28 as amended: the pipe treats a resubmitted transaction as it treats any other.
\* The tick fails only when the ledger cannot be read or the output channel is closed;
\* otherwise a callback still held receives the status; the transaction is forwarded a
\* second time exactly when that status is Accepted, and it is Accepted unless the pipe
\* sheds load, the VM or the mempool turns it down, or its sequence number is outside
\* of the window.
C28_DuplicateTreatedAsAny ==
    Resubmitted =>
        /\ pipe.last.tick = "Err" => pipe.last.db = "down" \/ pipe.last.rx_closed
        /\ pipe.last.tick = "Ok" =>
               /\ pipe.last.callback = "open" => pipe.last.answer = pipe.last.code
               /\ pipe.last.code \in {"Accepted", "MempoolIsFull", "VmError",
                                      "InvalidSeqNumber"}
               /\ pipe.last.code = "InvalidSeqNumber" => ~InWindow
               /\ pipe.last.code = "Accepted" <=> pipe.last.forwarded = 1
               /\ pipe.last.forwarded = 1 =>
                      Forwarded(pipe.output, pipe.last.transaction) = pipe.last.before + 1

\* A transaction forwarded before was accepted and forwarded a second time.
C28_Witness ==
    /\ Resubmitted
    /\ pipe.last.code = "Accepted"
    /\ pipe.last.answer = "Accepted"
    /\ Forwarded(pipe.output, pipe.last.transaction) = 2

\* C29: a tick on a request whose callback was dropped fails only when the ledger cannot
\* be read or the output channel is closed, as it does with the callback held; the
\* transaction is forwarded if it is accepted and nothing is sent to the callback.
C29_DroppedCallbackIsNoError ==
    Ticked /\ pipe.last.callback = "dropped" =>
        /\ pipe.last.tick = "Err" => pipe.last.db = "down" \/ pipe.last.rx_closed
        /\ pipe.last.answer = "-"
        /\ pipe.last.tick = "Ok" /\ pipe.last.code = "Accepted" =>
               /\ pipe.last.forwarded = 1
               /\ pipe.output[Len(pipe.output)] = pipe.last.transaction

\* A transaction whose callback was dropped was accepted and forwarded.
C29_Witness ==
    /\ Ticked
    /\ pipe.last.callback = "dropped"
    /\ pipe.last.tick = "Ok"
    /\ pipe.last.code = "Accepted"
    /\ pipe.last.forwarded = 1

\* C30: the verifier accepts a blob only for the data and the height at which it was
\* included: verifying data that were not submitted, or submitted data at another
\* height, returns an error.
C30_VerifiesOnlyIncluded ==
    da.op = "verify" /\ da.ret = "Ok" => <<da.blob, da.at>> \in da.included

\* The verifier turns down data that were never submitted at any height.
C30_AbsentDoesNotVerify ==
    da.op = "verify" /\ da.ret = "Ok"
    => \E h \in 1 .. da.height : <<da.blob, h>> \in da.included

\* What the verifier does check: a blob it accepts decodes to an InnerBlob.
C30_VerifiedDecodes ==
    da.op = "verify" /\ da.ret = "Ok" => da.blob.wellformed /\ da.verified = da.blob.inner

\* The signature of the blob of the latest call is one its signer's key made over the
\* blob's data.
SignatureVerifies ==
    /\ signed.blob.signer.encoding \in {"compressed", "uncompressed"}
    /\ signed.blob.signature.wellformed
    /\ signed.blob.signature.by = signed.blob.signer.key
    /\ signed.blob.signature.over.blob = signed.blob.data.blob
    /\ signed.blob.signature.over.timestamp = signed.blob.data.timestamp

\* The signer the blob names is listed: the hex string of its bytes is in the set.
SignerKnown == [hex |-> signed.blob.signer] \in signed.known_signers_sec1_bytes_hex

\* C31: the verifier of known signers returns the blob as verified exactly when its
\* signature verifies under the signer it carries and that signer is in the set of
\* known signers; the signature is checked first, so a blob whose signature does not
\* verify is turned down for its signature, whether or not its signer is known.
C31_KnownSignerAndSignature ==
    signed.op = "verify"
    => /\ signed.result.ret = "Ok" <=> SignatureVerifies /\ SignerKnown
       /\ signed.result.ret = "Ok" => signed.result.verified = signed.blob
       /\ ~SignatureVerifies
          => /\ signed.result.ret = "Err"
             /\ signed.result.error \in {"signature error", "Failed to verify signature"}
       /\ SignatureVerifies /\ ~SignerKnown
          => signed.result.error = "signer not in known signers"

\* A blob that names a known signer and carries a signature another key made has been
\* turned down.
C31_Witness ==
    /\ signed.op = "verify"
    /\ SignerKnown
    /\ signed.blob.signature.wellformed
    /\ signed.blob.signature.by # signed.blob.signer.key
    /\ signed.result.ret = "Err"

\* The lock units that have made their call of lock_bridge_transfer.
LockCalled == {i \in DOMAIN units : IsLock(units[i]) /\ units[i].lock_calls > 0}

C32_LockUsesKindFields ==
    \A i \in LockCalled :
        /\ units[i].locked_with.bridge_transfer_id = units[i].action.bridge_transfer_id
        /\ units[i].locked_with.hash_lock = units[i].action.hash_lock
        /\ units[i].locked_with.initiator = units[i].action.initiator
        /\ units[i].locked_with.amount = units[i].action.amount

\* A lock call has been made for an action whose two ids differ.
C32_TwoIds ==
    \E i \in LockCalled : units[i].action.bridge_transfer_id # units[i].action.transfer_id

\* The lock units that ended with BadAddressEncoding.
BadAddressUnits ==
    {i \in DOMAIN units :
         /\ IsLock(units[i])
         /\ units[i].result.tag = "Err"
         /\ units[i].result.error = "BadAddressEncoding"}

\* C33: a lock attempt that ends with BadAddressEncoding has had no external effect:
\* it has called neither lock_bridge_transfer nor the funding of the recipient.
C33_BadAddressNoExternalCall ==
    \A i \in BadAddressUnits : units[i].lock_calls = 0 /\ units[i].fund_calls = 0

\* A lock attempt that ends with BadAddressEncoding has not called lock_bridge_transfer.
C33_BadAddressNoLockCall ==
    \A i \in BadAddressUnits : units[i].lock_calls = 0

\* A lock attempt has ended with BadAddressEncoding after it funded the recipient.
C33_FundedThenBadAddress ==
    \E i \in BadAddressUnits : units[i].fund_calls = 1 /\ units[i].raw = "BadAddressEncoding"

\* C34: the counterparty read takes the transfer record from the storage of the
\* configured counterparty contract, and a record that only the initiator contract
\* holds is never returned as counterparty details.
C34_CounterpartyReadsCounterparty ==
    ethCall.op = "get_counterparty"
    => /\ ethCall.address = EthConfig.counterparty_contract
       /\ ethCall.ret = "Ok(Some)" => ethCall.storage.counterparty # Zeros(U256Bytes)

\* What the counterparty read does: it asks for the storage of the initiator contract.
C34_CounterpartyReadsInitiator ==
    ethCall.op = "get_counterparty" => ethCall.address = EthConfig.initiator_contract

\* A counterparty read has been made while only the initiator contract held a record.
C34_OnlyInitiatorHolds ==
    /\ ethCall.op = "get_counterparty"
    /\ ethCall.rpc = "up"
    /\ ethCall.storage.initiator # Zeros(U256Bytes)
    /\ ethCall.storage.counterparty = Zeros(U256Bytes)

\* The step is a tick on a SubmitTransaction request.
SubmitTick ==
    /\ pipe.pending # <<>>
    /\ pipe.pending[1].kind = "SubmitTransaction"
    /\ pipe'.pending = Tail(pipe.pending)
    /\ pipe'.last.kind = "SubmitTransaction"
    /\ pipe'.last.tick # "-"

\* C35: a call of submit_transaction whose result is not Accepted (load shed, VM
\* validation failure, invalid sequence number, mempool rejection, or an error)
\* leaves the in-flight counter, the pool of used sequence numbers and the output
\* channel as they were.
C35_NotAcceptedChangesNothing ==
    [][SubmitTick /\ pipe'.last.code # "Accepted"
       => /\ pipe'.in_flight = pipe.in_flight
          /\ pipe'.output = pipe.output
          /\ pipe'.last.used_after = pipe.used[pipe.pending[1].transaction.sender]
          /\ \A a \in Senders : pipe'.used[a] \in {pipe.used[a], <<>>}]_vars

\* A submission has been turned down by the mempool while a transaction was in
\* flight, on the output channel and in the pool.
C35_Witness ==
    /\ pipe.last.kind = "SubmitTransaction"
    /\ pipe.last.tick = "Ok"
    /\ pipe.last.code = "MempoolIsFull"
    /\ pipe.last.db = "up"
    /\ pipe.last.in_flight = 1
    /\ pipe.last.output = 1
    /\ pipe.last.used # <<>>
    /\ pipe.last.used_after = pipe.last.used

\* C36: once the request stream of the mempool clients is closed, the run loop of the
\* pipe ends with the error InputClosed: the tick that finds the stream closed is its
\* last.
C36_ClosedInputEndsRun ==
    pipe.last.kind = "None" => pipe.halted /\ pipe.last.tick = "Err(InputClosed)"

\* What the pipe does: the tick that finds the stream closed returns Ok and run goes
\* on.
C36_ClosedInputKeepsTicking ==
    pipe.last.kind = "None" => ~pipe.halted /\ pipe.last.tick = "Ok"

\* The stream is closed and drained, and a tick has found it so.
C36_TickOnClosedInput ==
    pipe.input_closed /\ pipe.pending = <<>> /\ pipe.last.kind = "None"

\* run has returned.
IngressEnded == ingress.ret # "-"

\* The step in which run returns.
IngressEnds == ingress.ret = "-" /\ ingress'.ret # "-"

\* C37: once the transaction channel of the ingress task is closed, the run loop ends
\* and returns Ok; while the channel is open the loop does not end on its own: run
\* returns Ok only on a closed and drained channel, and the one other way out is an
\* error of the configuration or of the serialization, passed on as Err.
C37_EndsOnClosedChannelOnly ==
    /\ [](ingress.ret = "Ok" => ingress.closed /\ ingress.channel = <<>>)
    /\ [](ingress.ret = "Err" <=> ingress.error # "-")
    /\ [][IngressEnds /\ ~ingress.closed => ingress'.ret = "Err"]_vars
    /\ [][IngressEnds /\ ingress'.error = "-"
          => ingress.closed /\ ingress.channel = <<>> /\ ingress'.ret = "Ok"]_vars
    /\ (ingress.started /\ ingress.closed) ~> (ingress.ret = "Ok" \/ ingress.error # "-")

\* The task wrote a batch, its channel was closed and run has returned Ok.
C37_Witness ==
    /\ ingress.ret = "Ok"
    /\ ingress.closed
    /\ ingress.written # <<>>
    /\ ingress.sent = MaxIngress

\* The transaction carries a bridge event, or a well-formed one as its first.
HasBridgeEvent(t) == t.user /\ \E i \in 1 .. Len(t.events) : IsBridgeEvent(t.events[i])
HasGoodEvent(t) ==
    /\ t.user
    /\ \E i \in 1 .. Len(t.events) :
           /\ IsBridgeEvent(t.events[i])
           /\ ~Malformed(t.events[i])
           /\ \A j \in 1 .. i - 1 : ~IsBridgeEvent(t.events[j])

\* The fetched transaction that alone carries bridge events, the first of them
\* well-formed; 0 when there is none.
OnlyGoodTransaction ==
    LET n == Len(extract.transactions)
        good == {k \in 1 .. n :
                     /\ HasGoodEvent(extract.transactions[k])
                     /\ \A l \in (1 .. n) \ {k} : ~HasBridgeEvent(extract.transactions[l])}
    IN  IF good = {} THEN 0 ELSE CHOOSE k \in good : TRUE

\* C38: the event lookup reports a missing event as EventNotFound, and it finds a
\* matching bridge event in any of the transactions it fetched: an Initiated or Locked
\* event in a transaction other than the last is returned too.
C38_FoundInAnyTransaction ==
    extract.op \in {"details", "id"} /\ extract.rpc = "up"
    => /\ (extract.op = "details"
           /\ \A k \in 1 .. Len(extract.transactions) :
                  ~HasBridgeEvent(extract.transactions[k]))
          => extract.result.ret = "Err" /\ extract.result.error = "EventNotFound"
       /\ OnlyGoodTransaction # 0 => extract.result.ret \in {"Ok", "Ok(Some)"}

\* What the lookup does: it reports EventNotFound when no fetched transaction has a
\* bridge event, and it finds the event when the last transaction fetched carries it.
C38_FoundInLastTransaction ==
    extract.op \in {"details", "id"} /\ extract.rpc = "up"
    => /\ (extract.op = "details"
           /\ \A k \in 1 .. Len(extract.transactions) :
                  ~HasBridgeEvent(extract.transactions[k]))
          => extract.result.ret = "Err" /\ extract.result.error = "EventNotFound"
       /\ (OnlyGoodTransaction # 0 /\ OnlyGoodTransaction = Len(extract.transactions))
          => extract.result.ret \in {"Ok", "Ok(Some)"}
       /\ (OnlyGoodTransaction # 0 /\ OnlyGoodTransaction # Len(extract.transactions))
          => extract.result.ret = "Err"

\* A lookup was made when the bridge event was in the first of two transactions.
C38_EventNotInLast ==
    /\ extract.op = "details"
    /\ extract.rpc = "up"
    /\ Len(extract.transactions) = 2
    /\ OnlyGoodTransaction = 1
    /\ extract.result.error = "EventNotFound"

====
